------------------------- MODULE LUKS2KeyslotsProofs -------------------------
(***************************************************************************)
(* Passphrases stay, or go, as the calls have reported, and the metadata   *)
(* tell the truth about the key material, for every number of contexts,    *)
(* keyslots, digests, tokens, passphrases, keys, calls and faults, proved  *)
(* from the inductive invariant KeyslotsInv.                               *)
(*                                                                         *)
(* The argument: a context that passes the comparison of the sequence id   *)
(* has a header in memory that is the one of the device but for what its   *)
(* own call changes (MemOK).  So the area it touches is the one of its own *)
(* keyslot and of no other (TargetIs), which keeps all promises but those  *)
(* of that keyslot.  A context that fails the comparison writes nothing.   *)
(* What a keyslot is good for does not depend on the order of commits,     *)
(* because every salt is used for one passphrase and key (ToldPart).       *)
(***************************************************************************)
EXTENDS LUKS2Keyslots, FiniteSetTheorems, TLAPS

-----------------------------------------------------------------------------
(* The inductive invariant                                                 *)

(* The types of what a context is doing, of an area, a promise and a       *)
(* backup.                                                                 *)
Jobs ==
    [at : {"store", "commit", "wipe", "destroy", "destroyed"}, slot : Slot,
     key : Key \cup {"none"}, pass : Pass \cup {"none"}, old : Slot \cup {AnyOne},
     swap : BOOLEAN, newkey : BOOLEAN]
Writes ==
    [at : {"write"}, tok : Token \cup {AnyOne}, keyslots : SUBSET Slot, again : BOOLEAN]
Resting == {Idle, [at |-> "reload"]}
Areas == [1..Units -> {Junk} \cup (Nat \X Pass \X Key)]
Promises == [slots : SUBSET Slot, passes : SUBSET Pass, key : Key]
Backups == [hdr : Header, area : Areas, owed : SUBSET Promises, asked : [Token -> SUBSET Slot]]

(* The types that the type invariant of the specification leaves out.      *)
TypePart ==
    /\ KeyslotsTypeOK
    /\ mem \in [Ctx -> Header \cup {NoHdr}]
    /\ pc \in [Ctx -> Resting \cup Jobs \cup Writes]
    /\ backup \in Backups \cup {NoHdr}
    /\ owed \subseteq Promises
    /\ {salt, faults} \subseteq Nat

(* The calls that keep the volume key for a new passphrase.                *)
Storing(c) == pc[c].at \in {"store", "commit"}
Removing(c) == pc[c].at \in {"destroy", "destroyed"}
Changing(c) == pc[c].slot # pc[c].old
Keeping(c) == Storing(c) \/ (Removing(c) /\ Changing(c))

(* The digests that keyslot k of h is assigned to.                         *)
DigestSet(h, k) == {d \in DigestsOf(h) : k \in h.dg[d].keyslots}

(* What each step of a call may rely on: a context without a header is     *)
(* idle, the keyslots the call is about are in its header and have their   *)
(* key, and the old and the new keyslot of a change of passphrase have a   *)
(* digest in common.                                                       *)
JobOK(c) ==
    LET j == pc[c]  h == mem[c] IN
    /\ h = NoHdr => j = Idle
    /\ j.at \in {"store", "commit", "wipe"} => j.key \in Key /\ j.pass \in Pass /\ j.old # j.slot
    /\ j.at = "wipe" => /\ j.old = AnyOne /\ h.ks[j.slot] # None
                        /\ \E d \in DigestsOf(h) : j.slot \in h.dg[d].keyslots /\ h.dg[d].key = j.key
    /\ Storing(c) => h.ks[j.slot] # None /\ h.ks[j.slot].type = "luks2" /\ h.ks[j.slot].salt > 0
    /\ Storing(c) /\ j.old # AnyOne => /\ h.ks[j.old] # None /\ h.ks[j.old].type = "luks2"
                                      /\ DigestSet(h, j.old) \cap DigestSet(h, j.slot) # {}
    /\ Removing(c) => j.old \in Slot /\ (~Changing(c) => ~j.swap)
    /\ Removing(c) /\ Changing(c) => /\ j.key \in Key /\ j.pass \in Pass
                                     /\ h.ks[j.slot] # None /\ h.ks[j.slot].type = "luks2"
    /\ j.at = "destroy" => h.ks[j.old] # None

(* Contexts and the header on the device.                                  *)
Synced(c) == mem[c].seq = disk.seq /\ pc[c].at # "reload"
SeqPart ==
    /\ disk.seq > 0 /\ (backup # NoHdr => backup.hdr.seq > 0)
    /\ \A c \in Ctx : /\ pc[c].at # "reload" => mem[c].seq <= disk.seq
                      /\ lock = c <=> pc[c].at \in {"commit", "destroyed"}
                      /\ lock = c => Synced(c)

(* No header that is not valid gets anywhere, neither to the device nor    *)
(* into a context. (LUKS2_token_assign of a keyslot that is not there      *)
(* would leave one in memory.)                                             *)
ValidPart ==
    /\ LUKS2_hdr_validate(disk)
    /\ \A c \in Ctx : mem[c] # NoHdr => LUKS2_hdr_validate(mem[c])
    /\ backup # NoHdr => LUKS2_hdr_validate(backup.hdr)

(* Keyslots with one area, and with the same contents too; the keyslots of *)
(* a token.                                                                *)
SameArea(a, b) == a.off = b.off /\ a.len = b.len
SameSlot(a, b) == SameArea(a, b) /\ a.type = b.type /\ a.salt = b.salt
TokenSlots(h, t) == IF h.tk[t] = None THEN {} ELSE h.tk[t].keyslots

(* The header after the swap of crypt_keyslot_change_by_passphrase, and    *)
(* after the destruction of keyslot k.                                     *)
Exchanged(h, j) == IF j.swap THEN LUKS2_keyslot_swap(h, j.slot, j.old) ELSE h
Wiped(h, k) == [luks2_keyslot_wipe(h, k) EXCEPT !.ks[k] = None]

(* A context that is storing a keyslot has the header of the device but    *)
(* for that keyslot, which has a new salt and, if it was there before, the *)
(* same area.                                                              *)
Stores(c) ==
    LET j == pc[c]  h == mem[c] IN
    /\ \A k \in Slot \ {j.slot} : h.ks[k] = disk.ks[k]
    /\ \A k \in SlotsOf(disk) : disk.ks[k].salt # h.ks[j.slot].salt
    /\ disk.ks[j.slot] # None => SameArea(disk.ks[j.slot], h.ks[j.slot])
    /\ h.tk = IF j.old = AnyOne THEN disk.tk
              ELSE LUKS2_token_assignment_copy(disk, j.old, j.slot).tk

(* A context that only writes the header keeps all keyslots, and changes   *)
(* one token at most.                                                      *)
WritesHeader(c) ==
    LET j == pc[c]  h == mem[c] IN
    /\ \A k \in SlotsOf(disk) : h.ks[k] # None /\ SameSlot(h.ks[k], disk.ks[k])
    /\ \A t \in Token : t # j.tok => h.tk[t] = disk.tk[t]
    /\ j.tok # AnyOne => TokenSlots(h, j.tok) = j.keyslots

(* What a context whose header has the sequence id of the device has in    *)
(* memory, for each step. This is what the comparison of sequence ids is   *)
(* good for: without it the header might be any older one.                 *)
MemOK(c) ==
    /\ pc[c].at \in {"idle", "wipe"} => mem[c] = disk
    /\ Storing(c) => Stores(c)
    /\ pc[c].at = "destroy" => mem[c] = Exchanged(disk, pc[c])
    /\ pc[c].at = "destroyed" => mem[c] = Wiped(Exchanged(disk, pc[c]), pc[c].old)
    /\ pc[c].at = "write" => WritesHeader(c)
MemPart == \A c \in Ctx : Synced(c) => MemOK(c)

(* Salts are counted, and each is used for one passphrase and key.         *)
HdrSalted(h, n) ==
    \A k \in SlotsOf(h) : h.ks[k].salt <= n /\ (h.ks[k].type = "reencrypt" => h.ks[k].salt = 0)
AreaSalted(a, n) == \A u \in 1..Units : a[u] # Junk => a[u][1] > 0 /\ a[u][1] <= n
SaltPart ==
    /\ HdrSalted(disk, salt) /\ AreaSalted(area, salt)
    /\ \A c \in Ctx : mem[c] # NoHdr => HdrSalted(mem[c], salt)
    /\ backup # NoHdr => HdrSalted(backup.hdr, salt) /\ AreaSalted(backup.area, salt)

(* A table K tells for which passphrase and key each salt was used. It     *)
(* agrees with the digests and sizes of all keyslots, in all headers, with *)
(* all areas, and with the calls that have a keyslot prepared. An area     *)
(* that has the salt of a keyslot so has the key of its digest, however    *)
(* old the header is that was read.                                        *)
SlotTold(h, k, K) ==
    /\ K[h.ks[k].salt][2] \in Key /\ h.ks[k].len = AreaLen[K[h.ks[k].salt][2]]
    /\ \A d \in DigestSet(h, k) : h.dg[d].key = K[h.ks[k].salt][2]
HdrTold(h, K) == \A k \in SlotsOf(h) : h.ks[k].type = "luks2" => SlotTold(h, k, K)
AreaTold(a, K) ==
    \A u \in 1..Units : a[u] # Junk => K[a[u][1]] = <<a[u][2], a[u][3]>>
Told(K) ==
    /\ HdrTold(disk, K) /\ AreaTold(area, K)
    /\ \A c \in Ctx : mem[c] # NoHdr => HdrTold(mem[c], K)
    /\ backup # NoHdr => HdrTold(backup.hdr, K) /\ AreaTold(backup.area, K)
    /\ \A c \in Ctx : Keeping(c) => K[mem[c].ks[pc[c].slot].salt] = <<pc[c].pass, pc[c].key>>
Tables == [Nat -> (Pass \cup {"none"}) \X (Key \cup {"none"})]
ToldPart == \E K \in Tables : Told(K)

(* The keyslot on the device that a change of a passphrase is to destroy.  *)
Doomed(c) == IF pc[c].swap THEN pc[c].slot ELSE pc[c].old
Doomer(c) == Synced(c) /\ pc[c].at = "destroy" /\ Changing(c)
Dooms == {Doomed(c) : c \in {x \in Ctx : Doomer(x)}}

(* Between the write of an area and the commit of the header the lock is   *)
(* held, and the area stays as it was written or wiped.                    *)
AreaOK(c) ==
    /\ pc[c].at = "commit" =>
          \A u \in Span(mem[c].ks[pc[c].slot]) :
             area[u] = <<mem[c].ks[pc[c].slot].salt, pc[c].pass, pc[c].key>>
    /\ pc[c].at = "destroyed" =>
          disk.ks[Doomed(c)] # None /\ \A u \in Span(disk.ks[Doomed(c)]) : area[u] = Junk
AreaPart == \A c \in Ctx : AreaOK(c)

(* A keyslot has what promise e says; one of the keyslots S of h does.     *)
Carries(ks, a, e) ==
    /\ ks # None /\ ks.type = "luks2"
    /\ \E p \in e.passes : \A u \in Span(ks) : a[u] = <<ks.salt, p, e.key>>
HeldBy(h, a, e, S) == \E k \in S : Carries(h.ks[k], a, e)

(* A promise is kept without the keyslot that a change of passphrase is    *)
(* going to destroy: either it is the promise that is changed, and the new *)
(* keyslot is one of its own, or another keyslot keeps it.                 *)
OwedAfter(c) ==
    /\ Storing(c) /\ pc[c].old # AnyOne => \A e \in owed :
          \/ {pc[c].old, pc[c].slot} \subseteq e.slots /\ pc[c].pass \in e.passes /\ pc[c].key = e.key
          \/ HeldBy(disk, area, e, e.slots \ (Dooms \cup {pc[c].old}))
    /\ Removing(c) /\ Changing(c) => \A e \in owed :
          \/ {pc[c].old, pc[c].slot} \subseteq e.slots
          \/ HeldBy(disk, area, e, e.slots \ {pc[c].old, pc[c].slot})

(* So every promise is kept by a keyslot that nobody is about to destroy.  *)
OwedPart ==
    /\ \A e \in owed : HeldBy(disk, area, e, e.slots \ Dooms)
    /\ \A c \in Ctx : Synced(c) => OwedAfter(c)
    /\ \A c, x \in Ctx : Doomer(c) /\ Doomer(x) => c = x
    /\ backup # NoHdr => \A e \in backup.owed : HeldBy(backup.hdr, backup.area, e, e.slots)

(* All key material is in the area of a keyslot with its salt, or in one   *)
(* that is about to be committed.                                          *)
GonePart ==
    faults = 0 /\ backup = NoHdr => \A u \in 1..Units : area[u] # Junk =>
        \/ \E k \in SlotsOf(disk) : u \in Span(disk.ks[k]) /\ disk.ks[k].salt = area[u][1]
        \/ \E c \in Ctx : /\ pc[c].at = "commit" /\ u \in Span(mem[c].ks[pc[c].slot])
                          /\ mem[c].ks[pc[c].slot].salt = area[u][1]

(* The tokens of the device, and of the backup, are as asked.              *)
AskedPart ==
    faults = 0 =>
        /\ \A t \in Token : asked[t] = TokenSlots(disk, t)
        /\ backup # NoHdr => \A t \in Token : backup.asked[t] = TokenSlots(backup.hdr, t)

JobPart == \A c \in Ctx : JobOK(c)

(* The inductive invariant.                                                *)
KeyslotsInv ==
    /\ TypePart /\ JobPart /\ SeqPart /\ ValidPart /\ MemPart /\ SaltPart /\ ToldPart
    /\ AreaPart /\ OwedPart /\ GonePart /\ AskedPart

-----------------------------------------------------------------------------
(* Numbers and records                                                     *)

(* A set of natural numbers has a least one.                               *)
LEMMA MinIs ==
    ASSUME NEW S \in SUBSET Nat, S # {}
    PROVE  Min(S) \in S /\ \A x \in S : Min(S) <= x
<1>1. PICK x \in S : \A y \in S : ~(<<y, x>> \in OpToRel(<, Nat))
  BY NatLessThanWellFounded, WFMin
<1>2. ASSUME NEW y \in S
      PROVE  x <= y
  <2>1. <<y, x>> \notin {r \in Nat \X Nat : r[1] < r[2]}
    BY <1>1 DEF OpToRel
  <2>2. <<y, x>> \in Nat \X Nat
    OBVIOUS
  <2> QED
    BY <2>1, <2>2
<1> QED
  BY <1>2 DEF Min

(* What is assumed of the constants, one by one.                           *)
LEMMA Constants ==
    /\ Slot \subseteq Nat /\ IsFiniteSet(Slot) /\ Digest \subseteq Nat /\ IsFiniteSet(Digest)
    /\ Token \subseteq Nat /\ IsFiniteSet(Token) /\ Digest # {}
    /\ AreaLen \in [Key -> Nat \ {0}] /\ Units \in Nat /\ JsonMax \in Nat /\ JsonMax > 0
    /\ FirstKey \in Key /\ NoOne \notin Ctx
    /\ AnyOne \notin Slot /\ AnyOne \notin Digest /\ AnyOne \notin Token
<1>1. \A S \in {Slot, Digest, Token} : S \subseteq Nat /\ IsFiniteSet(S)
  BY KeyslotsConstants
<1>2. Slot \subseteq Nat /\ Digest \subseteq Nat /\ Token \subseteq Nat
  BY <1>1
<1>3. IsFiniteSet(Slot) /\ IsFiniteSet(Digest) /\ IsFiniteSet(Token)
  BY <1>1
<1>4. AnyOne \notin Slot /\ AnyOne \notin Digest /\ AnyOne \notin Token
  BY <1>2 DEF AnyOne
<1>5. Units \in Nat /\ JsonMax \in Nat
  BY KeyslotsConstants
<1> QED
  BY <1>2, <1>3, <1>4, <1>5, KeyslotsConstants DEF NoOne

(* The three kinds of objects in a header.                                 *)
KeyslotRecords ==
    [type : {"luks2", "reencrypt"}, off : 1..Units, len : 1..Units, salt : Nat,
     prio : {"normal", "prefer", "ignore"}]
DigestRecords ==
    [type : {"pbkdf2"}, key : Key, keyslots : SUBSET Slot, segment : BOOLEAN]
TokenRecords == [type : {"token"}, keyslots : SUBSET Slot]

(* A header, by its objects.                                               *)
LEMMA HeaderIs ==
    Header = [seq : Nat, ks : [Slot -> {None} \cup KeyslotRecords],
              dg : [Digest -> {None} \cup DigestRecords],
              tk : [Token -> {None} \cup TokenRecords]]
  BY DEF Header, KeyslotRecords, DigestRecords, TokenRecords

(* No object is none.                                                      *)
LEMMA NoneIs ==
    /\ None \notin KeyslotRecords /\ None \notin DigestRecords /\ None \notin TokenRecords
  BY DEF None, KeyslotRecords, DigestRecords, TokenRecords

(* No header is a header.                                                  *)
LEMMA NoHdrIs == NoHdr \notin Header /\ NoHdr \notin Backups /\ NoHdr.seq = 0
<1>1. NoHdr \notin Header
  BY DEF NoHdr, Header
<1>2. NoHdr \notin Backups
  BY DEF NoHdr, Backups
<1> QED
  BY <1>1, <1>2 DEF NoHdr

(* An area has at least one unit.                                          *)
LEMMA SpanIs ==
    ASSUME NEW s \in KeyslotRecords
    PROVE  Span(s) # {} /\ Span(s) \subseteq Nat
<1>1. s.off \in Nat /\ s.len \in Nat /\ s.len > 0
  BY Constants DEF KeyslotRecords
<1>2. s.off \in Span(s)
  BY <1>1 DEF Span
<1> QED
  BY <1>1, <1>2 DEF Span

(* The fields of a header.                                                 *)
LEMMA FieldsAre ==
    ASSUME NEW h \in Header
    PROVE  /\ h.seq \in Nat /\ h.ks \in [Slot -> {None} \cup KeyslotRecords]
           /\ h.dg \in [Digest -> {None} \cup DigestRecords]
           /\ h.tk \in [Token -> {None} \cup TokenRecords]
           /\ \A k \in SlotsOf(h) : k \in Slot /\ h.ks[k] \in KeyslotRecords
           /\ \A d \in DigestsOf(h) : d \in Digest /\ h.dg[d] \in DigestRecords
           /\ \A t \in TokensOf(h) : t \in Token /\ h.tk[t] \in TokenRecords
  BY HeaderIs DEF SlotsOf, DigestsOf, TokensOf

(* Headers with the same fields are the same.                              *)
LEMMA HeadersEqual ==
    ASSUME NEW g \in Header, NEW h \in Header, g.seq = h.seq, g.ks = h.ks, g.dg = h.dg, g.tk = h.tk
    PROVE  g = h
  BY DEF Header

-----------------------------------------------------------------------------
(* Validation and the digest of a keyslot                                  *)

(* A header has finitely many objects.                                     *)
LEMMA FiniteParts ==
    ASSUME NEW h
    PROVE  /\ IsFiniteSet(SlotsOf(h)) /\ IsFiniteSet(DigestsOf(h)) /\ IsFiniteSet(TokensOf(h))
           /\ \A k : IsFiniteSet(DigestSet(h, k))
<1>1. SlotsOf(h) \in SUBSET Slot /\ DigestsOf(h) \in SUBSET Digest /\ TokensOf(h) \in SUBSET Token
  BY DEF SlotsOf, DigestsOf, TokensOf
<1>2. \A k : DigestSet(h, k) \in SUBSET Digest
  BY DEF DigestSet, DigestsOf
<1>3. IsFiniteSet(Slot) /\ IsFiniteSet(Digest) /\ IsFiniteSet(Token)
  BY Constants
<1> QED
  BY <1>1, <1>2, <1>3, FS_Subset

(* A header with less in it is not larger.                                 *)
LEMMA SizeShrinks ==
    ASSUME NEW g, NEW h, SlotsOf(g) \subseteq SlotsOf(h), DigestsOf(g) \subseteq DigestsOf(h),
           TokensOf(g) \subseteq TokensOf(h), JsonSize(h) <= JsonMax
    PROVE  JsonSize(g) <= JsonMax
<1>1. /\ IsFiniteSet(SlotsOf(h)) /\ IsFiniteSet(DigestsOf(h)) /\ IsFiniteSet(TokensOf(h))
      /\ IsFiniteSet(SlotsOf(g)) /\ IsFiniteSet(DigestsOf(g)) /\ IsFiniteSet(TokensOf(g))
  BY FiniteParts
<1>2. /\ Cardinality(SlotsOf(g)) <= Cardinality(SlotsOf(h))
      /\ Cardinality(DigestsOf(g)) <= Cardinality(DigestsOf(h))
      /\ Cardinality(TokensOf(g)) <= Cardinality(TokensOf(h))
  BY <1>1, FS_Subset
<1>3. /\ Cardinality(SlotsOf(g)) \in Nat /\ Cardinality(SlotsOf(h)) \in Nat
      /\ Cardinality(DigestsOf(g)) \in Nat /\ Cardinality(DigestsOf(h)) \in Nat
      /\ Cardinality(TokensOf(g)) \in Nat /\ Cardinality(TokensOf(h)) \in Nat
      /\ JsonMax \in Nat
  BY <1>1, FS_CardinalityType, Constants
<1> QED
  BY <1>2, <1>3 DEF JsonSize

(* A luks2 keyslot of a valid header has one digest.                       *)
LEMMA OneDigest ==
    ASSUME NEW h \in Header, LUKS2_keyslots_validate(h), NEW k \in SlotsOf(h),
           h.ks[k].type = "luks2"
    PROVE  \E d \in DigestsOf(h) : DigestSet(h, k) = {d} /\ LUKS2_digest_by_keyslot(h, k) = d
<1>1. Cardinality(DigestSet(h, k)) = 1
  BY DEF LUKS2_keyslots_validate, DigestSet
<1>2. PICK d : DigestSet(h, k) = {d}
  BY <1>1, FiniteParts, FS_Singleton
<1>3. d \in DigestsOf(h) /\ d \in Nat
  BY <1>2, Constants DEF DigestSet, DigestsOf
<1>4. Min({d}) = d
  BY <1>3, MinIs
<1>5. LUKS2_digest_by_keyslot(h, k) = d
  BY <1>2, <1>4 DEF LUKS2_digest_by_keyslot, DigestSet
<1> QED
  BY <1>2, <1>3, <1>5

(* LUKS2_digest_by_keyslot gives one of the keyslot's digests,             *)
LEMMA DigestByKeyslot ==
    ASSUME NEW h \in Header, NEW k, LUKS2_digest_by_keyslot(h, k) # AnyOne
    PROVE  LUKS2_digest_by_keyslot(h, k) \in DigestSet(h, k)
<1>1. DigestSet(h, k) \in SUBSET Nat /\ DigestSet(h, k) # {}
  BY Constants DEF DigestSet, DigestsOf, LUKS2_digest_by_keyslot
<1> QED
  BY <1>1, MinIs DEF LUKS2_digest_by_keyslot, DigestSet

(* and LUKS2_digest_by_segment one that is there.                          *)
LEMMA DigestBySegment ==
    ASSUME NEW h \in Header, LUKS2_digest_by_segment(h) # AnyOne
    PROVE  LUKS2_digest_by_segment(h) \in DigestsOf(h)
<1> DEFINE S == {d \in DigestsOf(h) : h.dg[d].segment}
<1>1. S \in SUBSET Nat /\ S # {}
  BY Constants DEF DigestsOf, LUKS2_digest_by_segment
<1>2. Min(S) \in S
  BY <1>1, MinIs
<1> QED
  BY <1>1, <1>2 DEF LUKS2_digest_by_segment

(* What keeps a header valid.                                              *)
LEMMA ValidFrom ==
    ASSUME NEW g \in Header, NEW h \in Header, LUKS2_hdr_validate(h),
           JsonSize(g) <= JsonMax, SlotsOf(g) \subseteq SlotsOf(h),
           \A t \in TokensOf(g) : g.tk[t].keyslots \subseteq SlotsOf(g),
           \A d \in DigestsOf(g) : g.dg[d].keyslots \subseteq SlotsOf(g),
           \E d \in DigestsOf(g) : g.dg[d].segment,
           \A k \in SlotsOf(g) : SameArea(g.ks[k], h.ks[k]) /\ g.ks[k].type = h.ks[k].type,
           \A k \in SlotsOf(g) : g.ks[k].type = "luks2" => DigestSet(g, k) = DigestSet(h, k)
    PROVE  LUKS2_hdr_validate(g)
<1>1. hdr_validate_areas(g)
  <2>1. hdr_validate_areas(h)
    BY DEF LUKS2_hdr_validate
  <2>2. \A k \in SlotsOf(g) : k \in SlotsOf(h) /\ Span(g.ks[k]) = Span(h.ks[k])
                              /\ g.ks[k].off = h.ks[k].off /\ g.ks[k].len = h.ks[k].len
    BY DEF Span, SameArea
  <2> QED
    BY <2>1, <2>2 DEF hdr_validate_areas
<1>2. LUKS2_keyslots_validate(g)
  BY DEF LUKS2_hdr_validate, LUKS2_keyslots_validate, DigestSet
<1> QED
  BY <1>1, <1>2 DEF LUKS2_hdr_validate

(* Keyslot k has no digest in g that it does not have in h.                *)
DigestsFrom(g, h, k) ==
    \A d \in DigestSet(g, k) : d \in DigestSet(h, k) /\ g.dg[d].key = h.dg[d].key

(* What keeps a header in agreement with the table of salts.               *)
LEMMA ToldFrom ==
    ASSUME NEW g, NEW h, NEW K, HdrTold(h, K),
           \A k \in SlotsOf(g) : g.ks[k].type = "luks2" =>
               k \in SlotsOf(h) /\ SameSlot(g.ks[k], h.ks[k]) /\ DigestsFrom(g, h, k)
    PROVE  HdrTold(g, K)
  BY DEF HdrTold, SlotTold, SameSlot, SameArea, DigestsFrom

-----------------------------------------------------------------------------
(* What the operations make of a header                                    *)

(* LUKS2_disk_hdr_write changes the sequence id only.                      *)
LEMMA CommittedIs ==
    ASSUME NEW h \in Header, disk.seq \in Nat
    PROVE  /\ Committed(h) \in Header /\ Committed(h).seq = disk.seq + 1
           /\ Committed(h).ks = h.ks /\ Committed(h).dg = h.dg /\ Committed(h).tk = h.tk
  BY HeaderIs DEF Committed

(* LUKS2_digests_erase_unused drops digests without keyslots and segment.  *)
LEMMA EraseIs ==
    ASSUME NEW h \in Header
    PROVE  LET g == LUKS2_digests_erase_unused(h) IN
           /\ g \in Header /\ g.seq = h.seq /\ g.ks = h.ks /\ g.tk = h.tk
           /\ \A d \in Digest : g.dg[d] = IF h.dg[d] # None /\ h.dg[d].keyslots = {} /\ ~h.dg[d].segment
                                          THEN None ELSE h.dg[d]
  BY HeaderIs DEF LUKS2_digests_erase_unused

(* LUKS2_digest_assign adds one keyslot to one digest.                     *)
LEMMA AssignIs ==
    ASSUME NEW h \in Header, NEW k \in Slot, NEW d \in DigestsOf(h)
    PROVE  LET g == LUKS2_digest_assign(h, k, d) IN
           /\ g \in Header /\ g.seq = h.seq /\ g.ks = h.ks /\ g.tk = h.tk
           /\ \A e \in Digest \ {d} : g.dg[e] = h.dg[e]
           /\ g.dg[d] # None /\ g.dg[d].keyslots = h.dg[d].keyslots \cup {k}
           /\ g.dg[d].key = h.dg[d].key /\ g.dg[d].segment = h.dg[d].segment
<1> DEFINE g == LUKS2_digest_assign(h, k, d)
           r == [h.dg[d] EXCEPT !.keyslots = @ \cup {k}]
<1>1. h.dg[d] \in DigestRecords /\ d \in Digest
  BY FieldsAre
<1>2. r \in DigestRecords /\ r.keyslots = h.dg[d].keyslots \cup {k}
      /\ r.key = h.dg[d].key /\ r.segment = h.dg[d].segment
  BY <1>1 DEF DigestRecords
<1>3. g = [h EXCEPT !.dg = [h.dg EXCEPT ![d] = r]]
  BY <1>1 DEF LUKS2_digest_assign
<1> HIDE DEF r
<1>4. /\ g.seq = h.seq /\ g.ks = h.ks /\ g.tk = h.tk /\ g.dg = [h.dg EXCEPT ![d] = r]
      /\ g \in Header
  BY <1>2, <1>3, HeaderIs
<1>5. g.dg[d] = r /\ \A e \in Digest \ {d} : g.dg[e] = h.dg[e]
  BY <1>1, <1>4, FieldsAre
<1>6. r # None
  BY <1>2, NoneIs
<1> QED
  BY <1>2, <1>4, <1>5, <1>6

(* A destroyed keyslot is nowhere, and nothing else is changed.            *)
LEMMA WipedIs ==
    ASSUME NEW h \in Header, NEW k \in Slot
    PROVE  LET g == Wiped(h, k) IN
           /\ g \in Header /\ g.seq = h.seq
           /\ g.ks[k] = None /\ \A j \in Slot \ {k} : g.ks[j] = h.ks[j]
           /\ \A d \in Digest : h.dg[d] = None => g.dg[d] = None
           /\ \A d \in Digest : h.dg[d] # None =>
                 /\ g.dg[d] # None /\ g.dg[d].keyslots = h.dg[d].keyslots \ {k}
                 /\ g.dg[d].key = h.dg[d].key /\ g.dg[d].segment = h.dg[d].segment
           /\ \A t \in Token : h.tk[t] = None => g.tk[t] = None
           /\ \A t \in Token : h.tk[t] # None =>
                 g.tk[t] # None /\ g.tk[t].keyslots = h.tk[t].keyslots \ {k}
<1> DEFINE g == Wiped(h, k)
           D == [d \in Digest |-> IF h.dg[d] = None THEN None
                                  ELSE [h.dg[d] EXCEPT !.keyslots = @ \ {k}]]
           T == [t \in Token |-> IF h.tk[t] = None THEN None
                                 ELSE [h.tk[t] EXCEPT !.keyslots = @ \ {k}]]
           S == [h.ks EXCEPT ![k] = None]
<1>1. /\ h.seq \in Nat /\ h.ks \in [Slot -> {None} \cup KeyslotRecords]
      /\ h.dg \in [Digest -> {None} \cup DigestRecords]
      /\ h.tk \in [Token -> {None} \cup TokenRecords]
  BY FieldsAre
<1>2. g = [h EXCEPT !.dg = D, !.tk = T, !.ks = S]
  BY DEF Wiped, luks2_keyslot_wipe, Header
<1>3. D \in [Digest -> {None} \cup DigestRecords]
  BY <1>1 DEF DigestRecords
<1>4. T \in [Token -> {None} \cup TokenRecords]
  BY <1>1 DEF TokenRecords
<1>5. S \in [Slot -> {None} \cup KeyslotRecords]
  BY <1>1
<1>6. g \in Header /\ g.seq = h.seq /\ g.dg = D /\ g.tk = T /\ g.ks = S
  <2> HIDE DEF D, T, S
  <2> QED
    BY <1>1, <1>2, <1>3, <1>4, <1>5, HeaderIs
<1>7. \A d \in Digest : h.dg[d] # None =>
                 /\ D[d] # None /\ D[d].keyslots = h.dg[d].keyslots \ {k}
                 /\ D[d].key = h.dg[d].key /\ D[d].segment = h.dg[d].segment
  BY <1>1, NoneIs DEF DigestRecords
<1>8. \A t \in Token : h.tk[t] # None => T[t] # None /\ T[t].keyslots = h.tk[t].keyslots \ {k}
  BY <1>1, NoneIs DEF TokenRecords
<1>9. /\ \A d \in Digest : h.dg[d] = None => D[d] = None
      /\ \A t \in Token : h.tk[t] = None => T[t] = None
      /\ S[k] = None /\ \A j \in Slot \ {k} : S[j] = h.ks[j]
  BY <1>1
<1> QED
  BY <1>6, <1>7, <1>8, <1>9

(* LUKS2_digest_create adds a digest of no keyslot.                        *)
LEMMA CreateIs ==
    ASSUME NEW h \in Header, NEW v \in Key, Digest \ DigestsOf(h) # {}
    PROVE  LET g == LUKS2_digest_create(h, v)  d == Min(Digest \ DigestsOf(h)) IN
           /\ d \in Digest \ DigestsOf(h)
           /\ g \in Header /\ g.seq = h.seq /\ g.ks = h.ks /\ g.tk = h.tk
           /\ \A e \in Digest \ {d} : g.dg[e] = h.dg[e]
           /\ g.dg[d] # None /\ g.dg[d].keyslots = {} /\ g.dg[d].key = v /\ ~g.dg[d].segment
<1> DEFINE g == LUKS2_digest_create(h, v)
           d == Min(Digest \ DigestsOf(h))
           r == [type |-> "pbkdf2", key |-> v, keyslots |-> {}, segment |-> FALSE]
<1>1. d \in Digest \ DigestsOf(h)
  BY MinIs, Constants
<1>2. r \in DigestRecords /\ r # None /\ r.keyslots = {} /\ r.key = v /\ ~r.segment
  <2>1. r \in DigestRecords
    BY DEF DigestRecords
  <2> QED
    BY <2>1, NoneIs
<1>3. g = [h EXCEPT !.dg = [h.dg EXCEPT ![d] = r]]
  BY DEF LUKS2_digest_create
<1> HIDE DEF r, d
<1>4. /\ g.seq = h.seq /\ g.ks = h.ks /\ g.tk = h.tk /\ g.dg = [h.dg EXCEPT ![d] = r]
      /\ g \in Header
  BY <1>1, <1>2, <1>3, HeaderIs
<1>5. g.dg[d] = r /\ \A e \in Digest \ {d} : g.dg[e] = h.dg[e]
  BY <1>1, <1>4, FieldsAre
<1> QED
  BY <1>1, <1>2, <1>4, <1>5 DEF d

(* LUKS2_token_assignment_copy changes tokens of the first keyslot only.   *)
LEMMA CopyIs ==
    ASSUME NEW h \in Header, NEW j \in Slot, NEW k \in Slot
    PROVE  LET g == LUKS2_token_assignment_copy(h, j, k) IN
           /\ g \in Header /\ g.seq = h.seq /\ g.ks = h.ks /\ g.dg = h.dg
           /\ \A t \in Token : TokenSlots(g, t) = IF j \in TokenSlots(h, t)
                                   THEN TokenSlots(h, t) \cup {k} ELSE TokenSlots(h, t)
           /\ TokensOf(g) = TokensOf(h)
<1> DEFINE g == LUKS2_token_assignment_copy(h, j, k)
           T == [t \in Token |-> IF h.tk[t] # None /\ j \in h.tk[t].keyslots
                                 THEN [h.tk[t] EXCEPT !.keyslots = @ \cup {k}]
                                 ELSE h.tk[t]]
<1>1. h.tk \in [Token -> {None} \cup TokenRecords]
  BY FieldsAre
<1>2. g = [h EXCEPT !.tk = T]
  BY DEF LUKS2_token_assignment_copy
<1>3. T \in [Token -> {None} \cup TokenRecords]
  BY <1>1 DEF TokenRecords
<1>4. \A t \in Token : h.tk[t] # None => T[t] # None /\
          T[t].keyslots = IF j \in h.tk[t].keyslots THEN h.tk[t].keyslots \cup {k} ELSE h.tk[t].keyslots
  BY <1>1, NoneIs DEF TokenRecords
<1>5. \A t \in Token : h.tk[t] = None => T[t] = None
  OBVIOUS
<1>6. g \in Header /\ g.seq = h.seq /\ g.ks = h.ks /\ g.dg = h.dg /\ g.tk = T
  <2> HIDE DEF T
  <2> QED
    BY <1>2, <1>3, HeaderIs
<1> QED
  BY <1>4, <1>5, <1>6 DEF TokenSlots, TokensOf

(* LUKS2_keyslot_swap exchanges two keyslots, in either order.             *)
LEMMA SwapIs ==
    ASSUME NEW h \in Header, NEW j \in Slot, NEW k \in Slot
    PROVE  LET g == LUKS2_keyslot_swap(h, j, k) IN
           /\ g \in Header /\ g.seq = h.seq /\ g.dg = h.dg /\ g.tk = h.tk
           /\ g.ks[j] = h.ks[k] /\ g.ks[k] = h.ks[j]
           /\ \A i \in Slot \ {j, k} : g.ks[i] = h.ks[i]
           /\ g = LUKS2_keyslot_swap(h, k, j)
<1> DEFINE S == [[h.ks EXCEPT ![j] = h.ks[k]] EXCEPT ![k] = h.ks[j]]
           R == [[h.ks EXCEPT ![k] = h.ks[j]] EXCEPT ![j] = h.ks[k]]
<1>1. h.ks \in [Slot -> {None} \cup KeyslotRecords]
  BY FieldsAre
<1>2. LUKS2_keyslot_swap(h, j, k) = [h EXCEPT !.ks = S] /\ LUKS2_keyslot_swap(h, k, j) = [h EXCEPT !.ks = R]
  BY HeaderIs DEF LUKS2_keyslot_swap
<1>3. S \in [Slot -> {None} \cup KeyslotRecords] /\ S = R
      /\ S[j] = h.ks[k] /\ S[k] = h.ks[j] /\ \A i \in Slot \ {j, k} : S[i] = h.ks[i]
  BY <1>1
<1> HIDE DEF S
<1> QED
  BY <1>2, <1>3, HeaderIs

(* update_volume_key_segment_digest changes no keys and no keyslots.       *)
LEMMA SegmentIs ==
    ASSUME NEW h \in Header, NEW e
    PROVE  LET g == update_volume_key_segment_digest(h, e) IN
           /\ g \in Header /\ g.seq = h.seq /\ g.ks = h.ks /\ g.tk = h.tk
           /\ \A d \in Digest : h.dg[d] = None => g.dg[d] = None
           /\ \A d \in Digest : h.dg[d] # None =>
                 /\ g.dg[d] # None /\ g.dg[d].keyslots = h.dg[d].keyslots
                 /\ g.dg[d].key = h.dg[d].key /\ (g.dg[d].segment <=> d = e)
<1> DEFINE g == update_volume_key_segment_digest(h, e)
           D == [d \in Digest |-> IF h.dg[d] = None THEN None
                                  ELSE [h.dg[d] EXCEPT !.segment = (d = e)]]
<1>1. h.dg \in [Digest -> {None} \cup DigestRecords]
  BY FieldsAre
<1>2. g = [h EXCEPT !.dg = D]
  BY DEF update_volume_key_segment_digest
<1>3. D \in [Digest -> {None} \cup DigestRecords]
  BY <1>1 DEF DigestRecords
<1>4. ASSUME NEW d \in Digest, h.dg[d] # None
      PROVE  /\ D[d] # None /\ D[d].keyslots = h.dg[d].keyslots
             /\ D[d].key = h.dg[d].key /\ (D[d].segment <=> d = e)
  <2>1. h.dg[d] \in DigestRecords /\ D[d] = [h.dg[d] EXCEPT !.segment = (d = e)]
    BY <1>1, <1>4
  <2>2. D[d] # None /\ D[d].keyslots = h.dg[d].keyslots /\ D[d].key = h.dg[d].key
    BY <2>1, <1>3, <1>4, NoneIs DEF DigestRecords
  <2>3. D[d].segment <=> d = e
    BY <2>1 DEF DigestRecords
  <2> QED
    BY <2>2, <2>3
<1>5. \A d \in Digest : h.dg[d] = None => D[d] = None
  OBVIOUS
<1>6. g \in Header /\ g.seq = h.seq /\ g.ks = h.ks /\ g.tk = h.tk /\ g.dg = D
  <2> HIDE DEF D
  <2> QED
    BY <1>2, <1>3, HeaderIs
<1> QED
  BY <1>4, <1>5, <1>6

-----------------------------------------------------------------------------
(* What a step of one context may do                                       *)

(* A step of context c after which it has header m and does j, and what    *)
(* the step has to establish about c itself.                               *)
Steps(c, m, j) ==
    /\ mem' = [mem EXCEPT ![c] = m] /\ pc' = [pc EXCEPT ![c] = j]
    /\ m \in Header \cup {NoHdr} /\ j \in Resting \cup Jobs \cup Writes
    /\ salt' \in Nat /\ salt <= salt' /\ faults' \in Nat /\ faults <= faults'
    /\ fresh' \subseteq Ctx /\ JobOK(c)'
    /\ lock' = lock \/ (lock \in {c, NoOne} /\ lock' \in {c, NoOne})
    /\ lock' = c <=> j.at \in {"commit", "destroyed"}
    /\ lock' = c => Synced(c)'
    /\ j.at # "reload" => m.seq <= disk'.seq
    /\ m # NoHdr => LUKS2_hdr_validate(m) /\ HdrSalted(m, salt')
    /\ Synced(c)' => MemOK(c)'

(* The other contexts stay as they are.                                    *)
LEMMA OthersAre ==
    ASSUME TypePart, NEW c \in Ctx, NEW m, NEW j, Steps(c, m, j)
    PROVE  /\ mem'[c] = m /\ pc'[c] = j
           /\ \A x \in Ctx \ {c} : mem'[x] = mem[x] /\ pc'[x] = pc[x]
  BY DEF TypePart, Steps

(* Salts that were used remain used.                                       *)
LEMMA SaltsGrow ==
    ASSUME NEW n \in Nat, NEW i \in Nat, n <= i
    PROVE  /\ \A h \in Header : HdrSalted(h, n) => HdrSalted(h, i)
           /\ \A a \in Areas : AreaSalted(a, n) => AreaSalted(a, i)
<1>1. ASSUME NEW h \in Header, HdrSalted(h, n)
      PROVE  HdrSalted(h, i)
  <2>1. \A k \in SlotsOf(h) : h.ks[k].salt \in Nat
    BY FieldsAre DEF KeyslotRecords
  <2> QED
    BY <1>1, <2>1 DEF HdrSalted
<1>2. ASSUME NEW a \in Areas, AreaSalted(a, n)
      PROVE  AreaSalted(a, i)
  <2>1. \A u \in 1..Units : a[u] # Junk => a[u][1] \in Nat
    BY DEF Areas
  <2> QED
    BY <1>2, <2>1 DEF AreaSalted
<1> QED
  BY <1>1, <1>2

(* The types of the variables, one by one.                                 *)
LEMMA TypesAre ==
    ASSUME TypePart
    PROVE  /\ disk \in Header /\ area \in Areas /\ salt \in Nat /\ faults \in Nat
           /\ \A c \in Ctx : /\ mem[c] \in Header \cup {NoHdr}
                             /\ pc[c] \in Resting \cup Jobs \cup Writes
                             /\ mem[c] # NoHdr => mem[c] \in Header
           /\ owed \subseteq Promises
           /\ backup # NoHdr => backup \in Backups /\ backup.hdr \in Header /\ backup.area \in Areas
                                /\ backup.owed \subseteq Promises
                                /\ backup.asked \in [Token -> SUBSET Slot]
<1>1. backup # NoHdr => backup \in Backups
  BY DEF TypePart
<1>2. backup \in Backups => backup.hdr \in Header /\ backup.area \in Areas
                            /\ backup.owed \subseteq Promises /\ backup.asked \in [Token -> SUBSET Slot]
  BY DEF Backups
<1>3. disk \in Header /\ area \in Areas
  BY DEF TypePart, KeyslotsTypeOK, Areas
<1> QED
  BY <1>1, <1>2, <1>3 DEF TypePart

(* The parts of the invariant that a step of one context can only disturb  *)
(* through its own header and job.                                         *)
LEMMA StepsType ==
    ASSUME TypePart, NEW c \in Ctx, NEW m, NEW j, Steps(c, m, j), disk' \in Header,
           area' \in Areas, backup' = backup, owed' \subseteq Promises,
           asked' \in [Token -> SUBSET Slot]
    PROVE  TypePart'
<1>1. /\ mem' \in [Ctx -> Header \cup {NoHdr}]
      /\ pc' \in [Ctx -> Resting \cup Jobs \cup Writes]
  BY DEF TypePart, Steps
<1>2. lock' \in Ctx \cup {NoOne}
  BY DEF TypePart, KeyslotsTypeOK, Steps
<1>3. area' \in [1..Units -> {Junk} \cup (Nat \X Pass \X Key)] /\ fresh' \subseteq Ctx
  BY DEF Areas, Steps
<1>4. \A x \in Ctx : mem'[x] = NoHdr \/ mem'[x] \in Header
  BY <1>1
<1>5. KeyslotsTypeOK'
  BY <1>2, <1>3, <1>4 DEF KeyslotsTypeOK
<1>6. (backup \in Backups \cup {NoHdr})'
  BY DEF TypePart
<1>7. {salt, faults}' \subseteq Nat
  BY DEF Steps
<1> QED
  BY <1>1, <1>5, <1>6, <1>7 DEF TypePart

(* The jobs;                                                               *)
LEMMA StepsJob ==
    ASSUME TypePart, JobPart, NEW c \in Ctx, NEW m, NEW j, Steps(c, m, j)
    PROVE  JobPart'
<1>1. ASSUME NEW x \in Ctx \ {c}
      PROVE  JobOK(x)'
  <2>1. mem'[x] = mem[x] /\ pc'[x] = pc[x]
    BY OthersAre
  <2>2. JobOK(x)
    BY DEF JobPart
  <2> QED
    BY <2>1, <2>2 DEF JobOK, Storing, Removing, Changing
<1> QED
  BY <1>1 DEF JobPart, Steps

(* the sequence ids, of a step that leaves the header on the device or,    *)
(* with the lock, counts it up;                                            *)
LEMMA StepsSeq ==
    ASSUME TypePart, SeqPart, NEW c \in Ctx, NEW m, NEW j, Steps(c, m, j),
           disk' \in Header, backup' = backup,
           \/ disk' = disk
           \/ disk'.seq = disk.seq + 1 /\ lock \in {c, NoOne}
    PROVE  SeqPart'
<1>1. \A x \in Ctx : mem[x].seq \in Nat
  BY TypesAre, NoHdrIs, FieldsAre
<1>2. disk.seq \in Nat /\ disk'.seq \in Nat /\ disk.seq <= disk'.seq /\ disk.seq > 0
  BY TypesAre, FieldsAre DEF SeqPart
<1>3. ASSUME NEW x \in Ctx \ {c}
      PROVE  /\ pc'[x].at # "reload" => mem'[x].seq <= disk'.seq
             /\ lock' = x <=> pc'[x].at \in {"commit", "destroyed"}
             /\ lock' = x => Synced(x)'
  <2>1. mem'[x] = mem[x] /\ pc'[x] = pc[x]
    BY OthersAre
  <2>2. lock' = x <=> lock = x
    BY Constants DEF Steps
  <2>3. pc'[x].at # "reload" => mem'[x].seq <= disk'.seq
    BY <1>1, <1>2, <2>1 DEF SeqPart
  <2>4. lock' = x <=> pc'[x].at \in {"commit", "destroyed"}
    BY <2>1, <2>2 DEF SeqPart
  <2>5. lock' = x => Synced(x)'
    <3>1. lock = x => disk' = disk
      BY Constants
    <3> QED
      BY <2>1, <2>2, <3>1 DEF SeqPart, Synced
  <2> QED
    BY <2>3, <2>4, <2>5
<1>4. /\ pc'[c].at # "reload" => mem'[c].seq <= disk'.seq
      /\ lock' = c <=> pc'[c].at \in {"commit", "destroyed"}
      /\ lock' = c => Synced(c)'
  BY OthersAre DEF Steps
<1> QED
  BY <1>2, <1>3, <1>4 DEF SeqPart

(* the validity of headers;                                                *)
LEMMA StepsValid ==
    ASSUME TypePart, ValidPart, NEW c \in Ctx, NEW m, NEW j, Steps(c, m, j),
           backup' = backup, LUKS2_hdr_validate(disk)'
    PROVE  ValidPart'
<1>1. \A x \in Ctx : mem'[x] # NoHdr => LUKS2_hdr_validate(mem'[x])
  BY OthersAre DEF ValidPart, Steps
<1> QED
  BY <1>1 DEF ValidPart

(* the salts;                                                              *)
LEMMA StepsSalt ==
    ASSUME TypePart, SaltPart, NEW c \in Ctx, NEW m, NEW j, Steps(c, m, j),
           backup' = backup, HdrSalted(disk', salt'), AreaSalted(area', salt')
    PROVE  SaltPart'
<1>1. salt \in Nat /\ salt' \in Nat /\ salt <= salt'
  BY TypesAre DEF Steps
<1>2. \A x \in Ctx : mem'[x] # NoHdr => HdrSalted(mem'[x], salt')
  <2>1. \A x \in Ctx : mem[x] # NoHdr => HdrSalted(mem[x], salt')
    BY <1>1, SaltsGrow, TypesAre DEF SaltPart
  <2> QED
    BY <2>1, OthersAre DEF Steps
<1>3. backup # NoHdr => HdrSalted(backup.hdr, salt') /\ AreaSalted(backup.area, salt')
  BY <1>1, SaltsGrow, TypesAre DEF SaltPart
<1> QED
  BY <1>2, <1>3 DEF SaltPart

(* and the table of salts.                                                 *)
LEMMA StepsTold ==
    ASSUME TypePart, NEW c \in Ctx, NEW m, NEW j, Steps(c, m, j), backup' = backup,
           NEW K \in Tables, Told(K), HdrTold(disk', K), AreaTold(area', K),
           m # NoHdr => HdrTold(m, K),
           Keeping(c)' => K[m.ks[j.slot].salt] = <<j.pass, j.key>>
    PROVE  ToldPart'
<1>1. \A x \in Ctx : mem'[x] # NoHdr => HdrTold(mem'[x], K)
  BY OthersAre DEF Told
<1>2. ASSUME NEW x \in Ctx, Keeping(x)'
      PROVE  K[mem'[x].ks[pc'[x].slot].salt] = <<pc'[x].pass, pc'[x].key>>
  <2>1. CASE x = c
    BY <2>1, <1>2, OthersAre
  <2>2. CASE x # c
    <3>1. mem'[x] = mem[x] /\ pc'[x] = pc[x]
      BY <2>2, OthersAre
    <3>2. Keeping(x)
      BY <3>1, <1>2 DEF Keeping, Storing, Removing, Changing
    <3> QED
      BY <3>1, <3>2 DEF Told
  <2> QED
    BY <2>1, <2>2
<1>3. Told(K)'
  BY <1>1, <1>2 DEF Told
<1> QED
  BY <1>3 DEF ToldPart

(* Sequence ids are natural numbers, that of no header too.                *)
LEMMA SeqsAre ==
    ASSUME TypePart
    PROVE  disk.seq \in Nat /\ \A x \in Ctx : mem[x].seq \in Nat
  BY TypesAre, NoHdrIs, FieldsAre

(* A promise is kept by more keyslots, too.                                *)
LEMMA HeldMore ==
    ASSUME NEW h, NEW a, NEW e, NEW S, NEW T, S \subseteq T, HeldBy(h, a, e, S)
    PROVE  HeldBy(h, a, e, T)
  BY DEF HeldBy

(* A context that does not start to destroy adds no keyslot to the doomed. *)
LEMMA DoomsShrink ==
    ASSUME TypePart, NEW c \in Ctx, NEW m, NEW j, Steps(c, m, j), disk' = disk, ~Doomer(c)'
    PROVE  /\ Dooms' \subseteq Dooms
           /\ \A x \in Ctx : Doomer(x)' => Doomer(x) /\ x # c
<1>1. ASSUME NEW x \in Ctx, Doomer(x)'
      PROVE  Doomer(x) /\ x # c /\ Doomed(x)' = Doomed(x)
  <2>1. mem'[x] = mem[x] /\ pc'[x] = pc[x] /\ x # c
    BY <1>1, OthersAre
  <2> QED
    BY <1>1, <2>1 DEF Doomer, Synced, Changing, Doomed
<1> QED
  BY <1>1 DEF Dooms

(* A step that leaves the header on the device alone.                      *)
LEMMA SameDisk ==
    ASSUME KeyslotsInv, NEW c \in Ctx, NEW m, NEW j, Steps(c, m, j),
           UNCHANGED <<disk, backup, asked>>,
           area' \in Areas, owed' \subseteq Promises, AreaSalted(area', salt'),
           NEW K \in Tables, Told(K), AreaTold(area', K), m # NoHdr => HdrTold(m, K),
           Keeping(c)' => K[m.ks[j.slot].salt] = <<j.pass, j.key>>,
           area' = area \/ lock \in {c, NoOne}, AreaOK(c)',
           GonePart', ~Doomer(c)',
           \A e \in owed' : HeldBy(disk, area', e, e.slots \ Dooms'),
           \A x \in Ctx : Synced(x)' => OwedAfter(x)'
    PROVE  KeyslotsInv'
<1> USE DEF KeyslotsInv
<1>1. TypePart' /\ JobPart' /\ SeqPart'
  <2>1. disk' \in Header /\ asked' \in [Token -> SUBSET Slot]
    BY DEF TypePart, KeyslotsTypeOK
  <2> QED
    BY <2>1, StepsType, StepsJob, StepsSeq
<1>2. ValidPart'
  BY StepsValid DEF ValidPart
<1>3. SaltPart'
  <2>1. HdrSalted(disk', salt')
    BY SaltsGrow, TypesAre DEF SaltPart, Steps
  <2> QED
    BY <2>1, StepsSalt
<1>4. ToldPart'
  BY StepsTold DEF Told
<1>5. ASSUME NEW x \in Ctx, Synced(x)'
      PROVE  MemOK(x)'
  <2>1. CASE x = c
    BY <1>5, <2>1 DEF Steps
  <2>2. CASE x # c
    <3>1. mem'[x] = mem[x] /\ pc'[x] = pc[x]
      BY <2>2, OthersAre
    <3>2. MemOK(x)
      BY <3>1, <1>5 DEF MemPart, Synced
    <3> QED
      BY <3>1, <3>2 DEF MemOK, Storing, Stores, WritesHeader
  <2> QED
    BY <2>1, <2>2
<1>6. ASSUME NEW x \in Ctx
      PROVE  AreaOK(x)'
  <2>1. CASE x = c
    BY <2>1
  <2>2. CASE x # c
    <3>1. mem'[x] = mem[x] /\ pc'[x] = pc[x] /\ AreaOK(x)
      BY <2>2, OthersAre DEF AreaPart
    <3>2. CASE area' = area
      BY <3>1, <3>2 DEF AreaOK, Doomed
    <3>3. CASE lock \in {c, NoOne}
      <4>1. pc[x].at \notin {"commit", "destroyed"}
        BY <2>2, <3>3, Constants DEF SeqPart
      <4> QED
        BY <3>1, <4>1 DEF AreaOK
    <3> QED
      BY <3>2, <3>3
  <2> QED
    BY <2>1, <2>2
<1>7. OwedPart'
  <2>1. \A x, y \in Ctx : Doomer(x)' /\ Doomer(y)' => x = y
    BY DoomsShrink DEF OwedPart
  <2>2. (backup # NoHdr => \A e \in backup.owed : HeldBy(backup.hdr, backup.area, e, e.slots))'
    BY DEF OwedPart
  <2> QED
    BY <2>1, <2>2 DEF OwedPart
<1>8. AskedPart'
  <2>1. faults' = 0 => faults = 0
    BY TypesAre DEF Steps
  <2> QED
    BY <2>1 DEF AskedPart, TokenSlots
<1> QED
  BY <1>1, <1>2, <1>3, <1>4, <1>5, <1>6, <1>7, <1>8 DEF MemPart, AreaPart

(* Every promise is one that was there, or a weaker one.                   *)
OwedMore ==
    /\ owed' \subseteq Promises
    /\ \A e \in owed' : \E f \in owed :
          f.slots \subseteq e.slots /\ f.passes \subseteq e.passes /\ f.key = e.key

(* What keeps a promise keeps every weaker one.                            *)
LEMMA HeldOnce ==
    ASSUME NEW h, NEW a, NEW e, NEW f, f.passes \subseteq e.passes, f.key = e.key,
           NEW S, NEW T, S \subseteq T, HeldBy(h, a, f, S)
    PROVE  HeldBy(h, a, e, T)
  BY DEF HeldBy, Carries

(* A step that only changes what a context has in memory, and the          *)
(* promises.                                                               *)
LEMMA LocalMore ==
    ASSUME KeyslotsInv, NEW c \in Ctx, NEW m, NEW j, Steps(c, m, j),
           UNCHANGED <<disk, backup, asked, area>>, OwedMore,
           NEW K \in Tables, Told(K), m # NoHdr => HdrTold(m, K),
           Keeping(c)' => K[m.ks[j.slot].salt] = <<j.pass, j.key>>,
           pc[c].at = "commit" => faults' > 0,
           j.at \notin {"commit", "destroyed"}, ~Doomer(c)',
           Synced(c)' => OwedAfter(c)'
    PROVE  KeyslotsInv'
<1> USE DEF KeyslotsInv
<1>1. area' \in Areas /\ owed' \subseteq Promises /\ AreaSalted(area', salt')
  BY TypesAre, SaltsGrow DEF SaltPart, Steps, OwedMore
<1>2. AreaOK(c)'
  BY OthersAre DEF AreaOK
<1>3. GonePart'
  <2> SUFFICES ASSUME faults' = 0, backup = NoHdr, NEW u \in 1..Units, area[u] # Junk
               PROVE  \/ \E k \in SlotsOf(disk) : u \in Span(disk.ks[k]) /\ disk.ks[k].salt = area[u][1]
                      \/ \E x \in Ctx : /\ pc'[x].at = "commit" /\ u \in Span(mem'[x].ks[pc'[x].slot])
                                        /\ mem'[x].ks[pc'[x].slot].salt = area[u][1]
    BY DEF GonePart, SlotsOf
  <2>1. faults = 0
    BY TypesAre DEF Steps
  <2>2. CASE \E k \in SlotsOf(disk) : u \in Span(disk.ks[k]) /\ disk.ks[k].salt = area[u][1]
    BY <2>2
  <2>3. CASE \E x \in Ctx : /\ pc[x].at = "commit" /\ u \in Span(mem[x].ks[pc[x].slot])
                            /\ mem[x].ks[pc[x].slot].salt = area[u][1]
    <3>1. PICK x \in Ctx : /\ pc[x].at = "commit" /\ u \in Span(mem[x].ks[pc[x].slot])
                           /\ mem[x].ks[pc[x].slot].salt = area[u][1]
      BY <2>3
    <3>2. x # c
      BY <3>1
    <3> QED
      BY <3>1, <3>2, OthersAre
  <2> QED
    BY <2>1, <2>2, <2>3 DEF GonePart
<1>4. ASSUME NEW e \in owed'
      PROVE  HeldBy(disk, area', e, e.slots \ Dooms')
  <2>1. PICK f \in owed : f.slots \subseteq e.slots /\ f.passes \subseteq e.passes /\ f.key = e.key
    BY DEF OwedMore
  <2>2. f.slots \ Dooms \subseteq e.slots \ Dooms'
    BY <2>1, DoomsShrink
  <2>3. HeldBy(disk, area, f, f.slots \ Dooms)
    BY DEF OwedPart
  <2>4. HeldBy(disk, area, e, e.slots \ Dooms')
    BY <2>1, <2>2, <2>3, HeldOnce
  <2> QED
    BY <2>4
<1>5. ASSUME NEW x \in Ctx, Synced(x)'
      PROVE  OwedAfter(x)'
  <2>1. CASE x = c
    BY <2>1, <1>5
  <2>2. CASE x # c
    <3>1. mem'[x] = mem[x] /\ pc'[x] = pc[x]
      BY <2>2, OthersAre
    <3>2. OwedAfter(x)
      BY <1>5, <3>1 DEF OwedPart, Synced
    <3>3. Storing(x)' = Storing(x) /\ Removing(x)' = Removing(x) /\ Changing(x)' = Changing(x)
      BY <3>1 DEF Storing, Removing, Changing
    <3>4. ASSUME NEW e \in owed', Storing(x), pc[x].old # AnyOne
          PROVE  \/ {pc[x].old, pc[x].slot} \subseteq e.slots /\ pc[x].pass \in e.passes /\ pc[x].key = e.key
                 \/ HeldBy(disk, area, e, e.slots \ (Dooms' \cup {pc[x].old}))
      <4>1. PICK f \in owed : f.slots \subseteq e.slots /\ f.passes \subseteq e.passes /\ f.key = e.key
        BY DEF OwedMore
      <4>2. f.slots \ (Dooms \cup {pc[x].old}) \subseteq e.slots \ (Dooms' \cup {pc[x].old})
        BY <4>1, DoomsShrink
      <4>3. HeldBy(disk, area, f, f.slots \ (Dooms \cup {pc[x].old}))
               => HeldBy(disk, area, e, e.slots \ (Dooms' \cup {pc[x].old}))
        BY <4>1, <4>2, HeldOnce
      <4> QED
        BY <3>2, <3>4, <4>1, <4>3 DEF OwedAfter
    <3>5. ASSUME NEW e \in owed', Removing(x), Changing(x)
          PROVE  \/ {pc[x].old, pc[x].slot} \subseteq e.slots
                 \/ HeldBy(disk, area, e, e.slots \ {pc[x].old, pc[x].slot})
      <4>1. PICK f \in owed : f.slots \subseteq e.slots /\ f.passes \subseteq e.passes /\ f.key = e.key
        BY DEF OwedMore
      <4>2. f.slots \ {pc[x].old, pc[x].slot} \subseteq e.slots \ {pc[x].old, pc[x].slot}
        BY <4>1
      <4>3. HeldBy(disk, area, f, f.slots \ {pc[x].old, pc[x].slot})
               => HeldBy(disk, area, e, e.slots \ {pc[x].old, pc[x].slot})
        BY <4>1, <4>2, HeldOnce
      <4> QED
        BY <3>2, <3>5, <4>1, <4>3 DEF OwedAfter
    <3> QED
      BY <3>1, <3>3, <3>4, <3>5 DEF OwedAfter
  <2> QED
    BY <2>1, <2>2
<1>6. AreaTold(area', K)
  BY DEF Told
<1> QED
  BY <1>1, <1>2, <1>3, <1>4, <1>5, <1>6, SameDisk

(* A step that writes the header on the device: every other context is     *)
(* behind it.                                                              *)
LEMMA NewDisk ==
    ASSUME KeyslotsInv, NEW c \in Ctx, NEW m, NEW j, Steps(c, m, j),
           UNCHANGED <<area, backup>>,
           disk' \in Header, disk'.seq = disk.seq + 1, lock \in {c, NoOne}, lock' = NoOne,
           LUKS2_hdr_validate(disk)', HdrSalted(disk', salt'),
           NEW K \in Tables, Told(K), HdrTold(disk', K), m # NoHdr => HdrTold(m, K),
           Keeping(c)' => K[m.ks[j.slot].salt] = <<j.pass, j.key>>,
           owed' \subseteq Promises, asked' \in [Token -> SUBSET Slot],
           GonePart', AskedPart',
           \A e \in owed' : HeldBy(disk', area, e,
                IF Doomer(c)' THEN e.slots \ {Doomed(c)'} ELSE e.slots),
           Synced(c)' => OwedAfter(c)'
    PROVE  KeyslotsInv'
<1> USE DEF KeyslotsInv
<1>0. ASSUME NEW x \in Ctx \ {c}
      PROVE  ~Synced(x)'
  <2>1. mem'[x] = mem[x] /\ pc'[x] = pc[x]
    BY OthersAre
  <2>2. pc[x].at # "reload" => mem[x].seq <= disk.seq
    BY DEF SeqPart
  <2> QED
    BY <2>1, <2>2, SeqsAre DEF Synced
<1>1. TypePart' /\ JobPart' /\ SeqPart'
  <2>1. area' \in Areas
    BY TypesAre
  <2> QED
    BY <2>1, StepsType, StepsJob, StepsSeq
<1>2. ValidPart'
  BY StepsValid
<1>3. SaltPart'
  <2>1. AreaSalted(area', salt')
    BY SaltsGrow, TypesAre DEF SaltPart, Steps
  <2> QED
    BY <2>1, StepsSalt
<1>4. ToldPart'
  <2>1. AreaTold(area', K)
    BY DEF Told
  <2> QED
    BY <2>1, StepsTold
<1>5. MemPart'
  BY <1>0 DEF MemPart, Steps
<1>6. ASSUME NEW x \in Ctx
      PROVE  AreaOK(x)'
  <2>1. lock' # x
    BY Constants
  <2>2. (lock = x <=> pc[x].at \in {"commit", "destroyed"})'
    BY <1>1 DEF SeqPart
  <2> QED
    BY <2>1, <2>2 DEF AreaOK
<1>7. OwedPart'
  <2>1. \A x \in Ctx : Doomer(x)' => x = c
    BY <1>0 DEF Doomer
  <2>2. (backup # NoHdr => \A e \in backup.owed : HeldBy(backup.hdr, backup.area, e, e.slots))'
    BY DEF OwedPart
  <2>3. Dooms' = IF Doomer(c)' THEN {Doomed(c)'} ELSE {}
    BY <2>1 DEF Dooms
  <2>4. \A e \in owed' : HeldBy(disk', area', e, e.slots \ Dooms')
    <3> SUFFICES ASSUME NEW e \in owed'
                 PROVE  HeldBy(disk', area', e, e.slots \ Dooms')
      OBVIOUS
    <3>1. e.slots \ {} = e.slots
      OBVIOUS
    <3>2. e.slots \ Dooms' = IF Doomer(c)' THEN e.slots \ {Doomed(c)'} ELSE e.slots
      BY <2>3, <3>1
    <3> QED
      BY <3>2
  <2>5. \A x \in Ctx : Synced(x)' => OwedAfter(x)'
    BY <1>0
  <2> QED
    BY <2>1, <2>2, <2>4, <2>5 DEF OwedPart
<1> QED
  BY <1>1, <1>2, <1>3, <1>4, <1>5, <1>6, <1>7 DEF AreaPart

(* A step after which the context has nothing to do, or only to read the   *)
(* header again.                                                           *)
LEMMA RestIs ==
    ASSUME NEW c \in Ctx, pc'[c] \in Resting, mem'[c] = NoHdr => pc'[c] = Idle,
           pc'[c] = Idle /\ mem'[c].seq = disk'.seq => mem'[c] = disk'
    PROVE  /\ JobOK(c)' /\ ~Keeping(c)' /\ ~Doomer(c)' /\ OwedAfter(c)' /\ AreaOK(c)'
           /\ pc'[c].at \in {"idle", "reload"} /\ (pc'[c].at = "reload" <=> pc'[c] # Idle)
           /\ Synced(c)' => MemOK(c)'
<1>1. pc'[c].at \in {"idle", "reload"} /\ (pc'[c].at = "reload" <=> pc'[c] # Idle)
  BY DEF Resting, Idle
<1>2. ~Storing(c)' /\ ~Removing(c)'
  BY <1>1 DEF Storing, Removing
<1>3. JobOK(c)' /\ ~Keeping(c)' /\ ~Doomer(c)' /\ OwedAfter(c)'
  BY <1>1, <1>2 DEF JobOK, Keeping, Doomer, OwedAfter
<1>4. AreaOK(c)'
  BY <1>1 DEF AreaOK
<1>5. Synced(c)' => MemOK(c)'
  BY <1>1, <1>2 DEF MemOK, Synced
<1> QED
  BY <1>1, <1>3, <1>4, <1>5

(* Such a step keeps the invariant if it changes nothing on the device,    *)
(* and no header with the sequence id of the device stays in memory that   *)
(* is not the header of the device.                                        *)
LEMMA RestMore ==
    ASSUME KeyslotsInv, NEW c \in Ctx, NEW m \in Header \cup {NoHdr}, NEW j \in Resting,
           mem' = [mem EXCEPT ![c] = m], pc' = [pc EXCEPT ![c] = j],
           UNCHANGED <<disk, backup, asked, area, salt>>, OwedMore,
           faults' \in Nat, faults <= faults', fresh' \subseteq Ctx,
           m = NoHdr => j = Idle, j = Idle => m.seq <= disk.seq,
           j = Idle /\ m.seq = disk.seq => m = disk,
           lock' = IF lock = c THEN NoOne ELSE lock,
           pc[c].at = "commit" => faults' > 0,
           m # NoHdr => LUKS2_hdr_validate(m) /\ HdrSalted(m, salt),
           \A K \in Tables : Told(K) /\ m # NoHdr => HdrTold(m, K)
    PROVE  KeyslotsInv'
<1> USE DEF KeyslotsInv
<1>1. mem'[c] = m /\ pc'[c] = j
  BY DEF TypePart
<1>2. /\ JobOK(c)' /\ ~Keeping(c)' /\ ~Doomer(c)' /\ OwedAfter(c)'
      /\ j.at \in {"idle", "reload"} /\ (j.at = "reload" <=> j # Idle)
      /\ Synced(c)' => MemOK(c)'
  BY <1>1, RestIs
<1>3. lock' # c /\ (lock' = lock \/ (lock \in {c, NoOne} /\ lock' \in {c, NoOne}))
  <2>1. c # NoOne
    BY Constants
  <2>2. CASE lock = c
    BY <2>1, <2>2
  <2>3. CASE lock # c
    BY <2>3
  <2> QED
    BY <2>2, <2>3
<1>4. Steps(c, m, j)
  BY <1>2, <1>3, TypesAre DEF Steps
<1>5. PICK K \in Tables : Told(K)
  BY DEF ToldPart
<1>6. m # NoHdr => HdrTold(m, K)
  BY <1>5
<1> QED
  BY <1>2, <1>4, <1>5, <1>6, LocalMore

(* Promises that stay are no stronger than before.                         *)
LEMMA OwedSame ==
    ASSUME TypePart, owed' = owed
    PROVE  OwedMore
  BY TypesAre DEF OwedMore

(* The same for a step that leaves the promises alone.                     *)
LEMMA Rest ==
    ASSUME KeyslotsInv, NEW c \in Ctx, NEW m \in Header \cup {NoHdr}, NEW j \in Resting,
           mem' = [mem EXCEPT ![c] = m], pc' = [pc EXCEPT ![c] = j],
           UNCHANGED <<disk, backup, asked, area, owed, salt>>,
           faults' \in Nat, faults <= faults', fresh' \subseteq Ctx,
           m = NoHdr => j = Idle, j = Idle => m.seq <= disk.seq,
           j = Idle /\ m.seq = disk.seq => m = disk,
           lock' = IF lock = c THEN NoOne ELSE lock,
           pc[c].at = "commit" => faults' > 0,
           m # NoHdr => LUKS2_hdr_validate(m) /\ HdrSalted(m, salt),
           \A K \in Tables : Told(K) /\ m # NoHdr => HdrTold(m, K)
    PROVE  KeyslotsInv'
<1>1. OwedMore
  BY OwedSame DEF KeyslotsInv
<1> QED
  BY <1>1, RestMore

(* _luks2_reload after an error.                                           *)
LEMMA ReloadHolds ==
    ASSUME KeyslotsInv, NEW c \in Ctx, Reload(c)
    PROVE  KeyslotsInv'
<1> USE DEF KeyslotsInv
<1>1. disk \in Header /\ Idle \in Resting /\ faults \in Nat /\ fresh \subseteq Ctx /\ disk.seq \in Nat
  BY TypesAre, SeqsAre DEF Resting, TypePart, KeyslotsTypeOK
<1>2. /\ mem' = [mem EXCEPT ![c] = disk] /\ pc' = [pc EXCEPT ![c] = Idle]
      /\ UNCHANGED <<disk, backup, asked, area, owed, salt, faults, fresh, lock>>
      /\ lock = NoOne /\ pc[c].at = "reload"
  BY DEF Reload, Return, promises, counters
<1>3. LUKS2_hdr_validate(disk) /\ HdrSalted(disk, salt) /\ \A K \in Tables : Told(K) => HdrTold(disk, K)
  BY DEF ValidPart, SaltPart, Told
<1>4. disk # NoHdr /\ lock # c /\ pc[c].at # "commit"
  BY <1>1, <1>2, NoHdrIs, Constants
<1>5. /\ disk \in Header \cup {NoHdr} /\ faults' \in Nat /\ faults <= faults' /\ fresh' \subseteq Ctx
      /\ disk.seq <= disk.seq /\ lock' = IF lock = c THEN NoOne ELSE lock
  BY <1>1, <1>2, <1>4
<1>6. UNCHANGED <<disk, backup, asked, area, owed, salt>>
  BY <1>2
<1> QED
  BY <1>1, <1>2, <1>3, <1>4, <1>5, <1>6, Rest

(* crypt_load.                                                             *)
LEMMA LoadHolds ==
    ASSUME KeyslotsInv, NEW c \in Ctx, Load(c)
    PROVE  KeyslotsInv'
<1> USE DEF KeyslotsInv
<1>1. disk \in Header /\ Idle \in Resting /\ faults \in Nat /\ fresh \subseteq Ctx /\ disk.seq \in Nat
  BY TypesAre, SeqsAre DEF Resting, TypePart, KeyslotsTypeOK
<1>2. /\ mem' = [mem EXCEPT ![c] = disk] /\ pc' = [pc EXCEPT ![c] = Idle]
      /\ UNCHANGED <<disk, backup, asked, area, owed, salt, faults, fresh, lock>>
      /\ lock = NoOne /\ pc[c].at = "idle"
  <2>1. pc' = [pc EXCEPT ![c] = Idle]
    BY DEF Load, TypePart
  <2>2. pc[c].at = "idle"
    BY DEF Load, Idle
  <2> QED
    BY <2>1, <2>2 DEF Load, promises, counters
<1>3. LUKS2_hdr_validate(disk) /\ HdrSalted(disk, salt) /\ \A K \in Tables : Told(K) => HdrTold(disk, K)
  BY DEF ValidPart, SaltPart, Told
<1>4. disk # NoHdr /\ lock # c /\ pc[c].at # "commit"
  BY <1>1, <1>2, NoHdrIs, Constants
<1>5. /\ disk \in Header \cup {NoHdr} /\ faults' \in Nat /\ faults <= faults' /\ fresh' \subseteq Ctx
      /\ disk.seq <= disk.seq /\ lock' = IF lock = c THEN NoOne ELSE lock
  BY <1>1, <1>2, <1>4
<1>6. UNCHANGED <<disk, backup, asked, area, owed, salt>>
  BY <1>2
<1> QED
  BY <1>1, <1>2, <1>3, <1>4, <1>5, <1>6, Rest

(* Forgetting the header: crypt_free and the end of a process.             *)
LEMMA ForgetHolds ==
    ASSUME KeyslotsInv, NEW c \in Ctx,
           mem' = [mem EXCEPT ![c] = NoHdr], pc' = [pc EXCEPT ![c] = Idle],
           UNCHANGED <<disk, backup, asked, area, owed, salt>>,
           faults' \in Nat, faults <= faults', fresh' = fresh \ {c},
           lock' = IF lock = c THEN NoOne ELSE lock,
           pc[c].at = "commit" => faults' > 0
    PROVE  KeyslotsInv'
<1> USE DEF KeyslotsInv
<1>1. Idle \in Resting /\ fresh' \subseteq Ctx /\ disk.seq \in Nat /\ disk.seq > 0 /\ NoHdr.seq = 0
  BY TypesAre, SeqsAre, NoHdrIs DEF Resting, TypePart, KeyslotsTypeOK, SeqPart
<1>2. NoHdr \in Header \cup {NoHdr} /\ NoHdr.seq <= disk.seq /\ NoHdr.seq # disk.seq
  BY <1>1
<1> QED
  BY <1>1, <1>2, Rest

(* crypt_free.                                                             *)
LEMMA CloseHolds ==
    ASSUME KeyslotsInv, NEW c \in Ctx, Close(c)
    PROVE  KeyslotsInv'
<1> USE DEF KeyslotsInv
<1>1. faults \in Nat /\ pc[c].at = "idle"
  BY TypesAre DEF Close, Idle
<1>2. lock # c
  BY <1>1 DEF SeqPart
<1>3. pc' = [pc EXCEPT ![c] = Idle]
  BY DEF Close, TypePart
<1>4. /\ mem' = [mem EXCEPT ![c] = NoHdr] /\ UNCHANGED <<disk, backup, asked, area, owed, salt>>
      /\ faults' \in Nat /\ faults <= faults' /\ fresh' = fresh \ {c}
      /\ lock' = IF lock = c THEN NoOne ELSE lock
  BY <1>1, <1>2 DEF Close, promises, counters
<1> QED
  BY <1>1, <1>3, <1>4, ForgetHolds

(* A call that gives up before it has changed anything.                    *)
LEMMA GivesUpMore ==
    ASSUME KeyslotsInv, NEW c \in Ctx, NEW j \in Resting, mem' = mem, pc' = [pc EXCEPT ![c] = j],
           UNCHANGED <<disk, area, lock, backup, asked, fresh, salt, faults>>, OwedMore,
           mem[c] # NoHdr, lock # c, pc[c].at # "reload",
           j = Idle /\ mem[c].seq = disk.seq => mem[c] = disk
    PROVE  KeyslotsInv'
<1> USE DEF KeyslotsInv
<1>1. mem' = [mem EXCEPT ![c] = mem[c]] /\ mem[c] \in Header \cup {NoHdr}
  BY TypesAre DEF TypePart
<1>2. faults \in Nat /\ fresh \subseteq Ctx
  BY TypesAre DEF TypePart, KeyslotsTypeOK
<1>3. mem[c].seq <= disk.seq /\ pc[c].at # "commit"
  BY DEF SeqPart
<1>4. /\ LUKS2_hdr_validate(mem[c]) /\ HdrSalted(mem[c], salt)
      /\ \A K \in Tables : Told(K) => HdrTold(mem[c], K)
  BY DEF ValidPart, SaltPart, Told
<1>5. /\ faults' \in Nat /\ faults <= faults' /\ fresh' \subseteq Ctx
      /\ lock' = IF lock = c THEN NoOne ELSE lock
  BY <1>2
<1> QED
  BY <1>1, <1>3, <1>4, <1>5, RestMore

(* The same without a change of the promises.                              *)
LEMMA GivesUp ==
    ASSUME KeyslotsInv, NEW c \in Ctx, NEW j \in Resting, mem' = mem, pc' = [pc EXCEPT ![c] = j],
           UNCHANGED <<disk, area, lock, backup, owed, asked, fresh, salt, faults>>,
           mem[c] # NoHdr, lock # c, pc[c].at # "reload",
           j = Idle /\ mem[c].seq = disk.seq => mem[c] = disk
    PROVE  KeyslotsInv'
<1>1. OwedMore
  BY OwedSame DEF KeyslotsInv
<1> QED
  BY <1>1, GivesUpMore

(* LUKS2_device_write_lock refuses a header that is old.                   *)
LEMMA StaleHolds ==
    ASSUME KeyslotsInv, NEW c \in Ctx, Stale(c)
    PROVE  KeyslotsInv'
<1> USE DEF KeyslotsInv
<1>1. PICK j \in Resting : pc' = [pc EXCEPT ![c] = j]
  <2>1. pc' = [pc EXCEPT ![c] = Idle] \/ pc' = [pc EXCEPT ![c] = [at |-> "reload"]]
    BY DEF Stale, Error, Return, Fail
  <2> QED
    BY <2>1 DEF Resting
<1>2. pc[c].at \in {"store", "wipe", "destroy", "write"} /\ lock = NoOne /\ mem[c].seq # disk.seq
  BY DEF Stale, Locked
<1>3. mem[c] # NoHdr
  BY <1>2 DEF JobPart, JobOK, Idle
<1> QED
  BY <1>1, <1>2, <1>3, GivesUp, Constants DEF Stale, promises, counters

(* crypt_keyslot_add_by_keyfile with a second file that cannot be read.    *)
LEMMA KeyfileHolds ==
    ASSUME KeyslotsInv, NEW c \in Ctx, crypt_keyslot_add_by_keyfile(c)
    PROVE  KeyslotsInv'
<1>1. [at |-> "reload"] \in Resting /\ [at |-> "reload"] # Idle
  BY DEF Resting, Idle
<1>2. /\ mem' = mem /\ pc' = [pc EXCEPT ![c] = [at |-> "reload"]]
      /\ UNCHANGED <<disk, area, lock, backup, owed, asked, fresh, salt, faults>>
      /\ mem[c] # NoHdr /\ lock = NoOne /\ pc[c].at # "reload"
  BY DEF crypt_keyslot_add_by_keyfile, Call, Fail, Idle
<1> QED
  BY <1>1, <1>2, GivesUp, Constants

-----------------------------------------------------------------------------
(* Calls that only write the header                                        *)

(* Dropping unused digests leaves a header valid.                          *)
LEMMA EraseKeeps ==
    ASSUME NEW h \in Header
    PROVE  LET g == LUKS2_digests_erase_unused(h) IN
           /\ SlotsOf(g) = SlotsOf(h) /\ TokensOf(g) = TokensOf(h) /\ DigestsOf(g) \subseteq DigestsOf(h)
           /\ \A d \in DigestsOf(g) : g.dg[d] = h.dg[d]
           /\ \A k : DigestSet(g, k) = DigestSet(h, k)
           /\ LUKS2_hdr_validate(h) => LUKS2_hdr_validate(g)
           /\ \A K : HdrTold(h, K) => HdrTold(g, K)
           /\ \A n : HdrSalted(h, n) => HdrSalted(g, n)
<1> DEFINE g == LUKS2_digests_erase_unused(h)
<1>1. /\ g \in Header /\ g.seq = h.seq /\ g.ks = h.ks /\ g.tk = h.tk
      /\ \A d \in Digest : g.dg[d] = IF h.dg[d] # None /\ h.dg[d].keyslots = {} /\ ~h.dg[d].segment
                                     THEN None ELSE h.dg[d]
  BY EraseIs
<1> HIDE DEF g
<1>2. SlotsOf(g) = SlotsOf(h) /\ TokensOf(g) = TokensOf(h)
  BY <1>1 DEF SlotsOf, TokensOf
<1>3. DigestsOf(g) \subseteq DigestsOf(h) /\ \A d \in DigestsOf(g) : g.dg[d] = h.dg[d]
  BY <1>1 DEF DigestsOf
<1>4. \A d \in DigestsOf(h) : h.dg[d].keyslots # {} \/ h.dg[d].segment => d \in DigestsOf(g)
  BY <1>1 DEF DigestsOf
<1>5. \A k : DigestSet(g, k) = DigestSet(h, k)
  BY <1>3, <1>4 DEF DigestSet
<1>6. ASSUME LUKS2_hdr_validate(h)
      PROVE  LUKS2_hdr_validate(g)
  <2>1. JsonSize(g) <= JsonMax
    BY <1>2, <1>3, <1>6, SizeShrinks DEF LUKS2_hdr_validate
  <2>2. \A t \in TokensOf(g) : g.tk[t].keyslots \subseteq SlotsOf(g)
    BY <1>1, <1>2, <1>6 DEF LUKS2_hdr_validate
  <2>3. \A d \in DigestsOf(g) : g.dg[d].keyslots \subseteq SlotsOf(g)
    BY <1>2, <1>3, <1>6 DEF LUKS2_hdr_validate
  <2>4. \E d \in DigestsOf(g) : g.dg[d].segment
    <3>1. PICK d \in DigestsOf(h) : h.dg[d].segment
      BY <1>6 DEF LUKS2_hdr_validate
    <3> QED
      BY <3>1, <1>3, <1>4
  <2>5. \A k \in SlotsOf(g) : SameArea(g.ks[k], h.ks[k]) /\ g.ks[k].type = h.ks[k].type
    BY <1>1 DEF SameArea
  <2> QED
    BY <1>1, <1>2, <1>5, <1>6, <2>1, <2>2, <2>3, <2>4, <2>5, ValidFrom
<1>7. ASSUME NEW K, HdrTold(h, K)
      PROVE  HdrTold(g, K)
  <2>1. \A k \in SlotsOf(g) : k \in SlotsOf(h) /\ SameSlot(g.ks[k], h.ks[k])
    BY <1>1, <1>2 DEF SameSlot, SameArea
  <2>2. \A k : DigestsFrom(g, h, k)
    BY <1>3, <1>5 DEF DigestsFrom, DigestSet
  <2> QED
    BY <1>7, <2>1, <2>2, ToldFrom
<1>8. \A n : HdrSalted(h, n) => HdrSalted(g, n)
  BY <1>1, <1>2 DEF HdrSalted
<1> QED
  BY <1>2, <1>3, <1>5, <1>6, <1>7, <1>8 DEF g

(* A call has a valid header in memory, to be written next.                *)
LEMMA WriteStep ==
    ASSUME KeyslotsInv, NEW c \in Ctx, NEW g \in Header, NEW t \in Token \cup {AnyOne},
           NEW ks \in SUBSET Slot, NEW again \in BOOLEAN,
           mem' = [mem EXCEPT ![c] = g], pc' = [pc EXCEPT ![c] = WriteJob(t, ks, again)],
           UNCHANGED <<disk, area, lock, backup, owed, asked, fresh, salt, faults>>,
           pc[c] = Idle, g.seq = mem[c].seq, LUKS2_hdr_validate(g), HdrSalted(g, salt),
           \A K \in Tables : Told(K) => HdrTold(g, K),
           mem[c] = disk =>
              /\ \A k \in SlotsOf(disk) : g.ks[k] # None /\ SameSlot(g.ks[k], disk.ks[k])
              /\ \A s \in Token : s # t => g.tk[s] = disk.tk[s]
              /\ t # AnyOne => TokenSlots(g, t) = ks
    PROVE  KeyslotsInv'
<1> USE DEF KeyslotsInv
<1> DEFINE j == WriteJob(t, ks, again)
<1>1. /\ j \in Writes /\ j.at = "write" /\ j.tok = t /\ j.keyslots = ks /\ pc[c].at = "idle"
  BY DEF Writes, WriteJob, Idle
<1> HIDE DEF j
<1>2. mem'[c] = g /\ pc'[c] = j /\ g # NoHdr
  BY NoHdrIs DEF TypePart, j
<1>3. ~Storing(c)' /\ ~Removing(c)' /\ ~Keeping(c)' /\ ~Doomer(c)' /\ OwedAfter(c)' /\ JobOK(c)'
  BY <1>1, <1>2 DEF Storing, Removing, Keeping, Doomer, OwedAfter, JobOK
<1>4. lock # c /\ mem[c].seq <= disk.seq
  BY <1>1 DEF SeqPart
<1>5. ASSUME Synced(c)'
      PROVE  MemOK(c)'
  <2>1. mem[c] = disk
    BY <1>1, <1>2, <1>5 DEF Synced, MemPart, MemOK
  <2>2. WritesHeader(c)'
    BY <2>1, <1>1, <1>2 DEF WritesHeader, TokenSlots
  <2> QED
    BY <1>1, <1>2, <1>3, <2>2 DEF MemOK
<1>6. salt \in Nat /\ faults \in Nat /\ fresh \subseteq Ctx
  BY TypesAre DEF TypePart, KeyslotsTypeOK
<1>7. mem' = [mem EXCEPT ![c] = g] /\ pc' = [pc EXCEPT ![c] = j]
  BY DEF j
<1>8. Steps(c, g, j)
  <2>1. /\ g \in Header \cup {NoHdr} /\ j \in Resting \cup Jobs \cup Writes
        /\ salt' \in Nat /\ salt <= salt' /\ faults' \in Nat /\ faults <= faults' /\ fresh' \subseteq Ctx
    BY <1>1, <1>6
  <2>2. lock' = lock /\ lock' # c /\ j.at \notin {"commit", "destroyed"} /\ g.seq <= disk'.seq
    BY <1>1, <1>4
  <2>3. LUKS2_hdr_validate(g) /\ HdrSalted(g, salt')
    OBVIOUS
  <2> QED
    BY <1>3, <1>5, <1>7, <2>1, <2>2, <2>3 DEF Steps
<1>9. PICK K \in Tables : Told(K)
  BY DEF ToldPart
<1> QED
  BY <1>1, <1>2, <1>3, <1>8, <1>9, OwedSame, LocalMore

(* LUKS2_hdr_write of a header that is valid.                              *)
LEMMA HdrWriteHolds ==
    ASSUME KeyslotsInv, NEW c \in Ctx, NEW h \in Header, NEW t \in Token \cup {AnyOne},
           NEW ks \in SUBSET Slot, Call(c), UNCHANGED <<owed, salt>>,
           LUKS2_hdr_write(c, h, WriteJob(t, ks, FALSE)),
           h.seq = mem[c].seq, LUKS2_hdr_validate(h), HdrSalted(h, salt),
           \A K \in Tables : Told(K) => HdrTold(h, K),
           \A k \in SlotsOf(mem[c]) : h.ks[k] # None /\ SameSlot(h.ks[k], mem[c].ks[k]),
           \A s \in Token : s # t => h.tk[s] = mem[c].tk[s],
           t # AnyOne => TokenSlots(h, t) = ks
    PROVE  KeyslotsInv'
<1> DEFINE g == LUKS2_digests_erase_unused(h)
<1>1. g \in Header /\ g.seq = h.seq /\ g.ks = h.ks /\ g.tk = h.tk
  BY EraseIs
<1>2. LUKS2_hdr_validate(g) /\ HdrSalted(g, salt) /\ \A K \in Tables : Told(K) => HdrTold(g, K)
  BY EraseKeeps
<1>3. mem' = [mem EXCEPT ![c] = g] /\ pc' = [pc EXCEPT ![c] = WriteJob(t, ks, FALSE)]
  BY <1>2 DEF LUKS2_hdr_write
<1>4. pc[c] = Idle /\ UNCHANGED <<disk, area, lock, backup, owed, asked, fresh, salt, faults>>
  BY DEF Call
<1> HIDE DEF g
<1>5. /\ \A k \in SlotsOf(mem[c]) : g.ks[k] # None /\ SameSlot(g.ks[k], mem[c].ks[k])
      /\ \A s \in Token : s # t => g.tk[s] = mem[c].tk[s]
      /\ t # AnyOne => TokenSlots(g, t) = ks
  BY <1>1 DEF TokenSlots
<1>6. mem[c] = disk =>
              /\ \A k \in SlotsOf(disk) : g.ks[k] # None /\ SameSlot(g.ks[k], disk.ks[k])
              /\ \A s \in Token : s # t => g.tk[s] = disk.tk[s]
              /\ t # AnyOne => TokenSlots(g, t) = ks
  BY <1>5
<1>7. FALSE \in BOOLEAN /\ g.seq = mem[c].seq
  BY <1>1
<1> QED
  BY <1>1, <1>2, <1>3, <1>4, <1>6, <1>7, WriteStep

(* A header in memory is valid, with salts that were used as the table     *)
(* says.                                                                   *)
LEMMA MemGood ==
    ASSUME KeyslotsInv, NEW c \in Ctx, mem[c] # NoHdr
    PROVE  /\ mem[c] \in Header /\ LUKS2_hdr_validate(mem[c]) /\ HdrSalted(mem[c], salt)
           /\ \A K \in Tables : Told(K) => HdrTold(mem[c], K)
  BY TypesAre DEF KeyslotsInv, ValidPart, SaltPart, Told

(* Another digest becomes the one of the segment.                          *)
LEMMA SegmentValid ==
    ASSUME NEW h \in Header, LUKS2_hdr_validate(h), NEW e \in DigestsOf(h)
    PROVE  LET g == update_volume_key_segment_digest(h, e) IN
           /\ g \in Header /\ g.seq = h.seq /\ g.ks = h.ks /\ g.tk = h.tk /\ LUKS2_hdr_validate(g)
           /\ \A K : HdrTold(h, K) => HdrTold(g, K)
           /\ \A n : HdrSalted(h, n) => HdrSalted(g, n)
<1> DEFINE g == update_volume_key_segment_digest(h, e)
<1>5. /\ g \in Header /\ g.seq = h.seq /\ g.ks = h.ks /\ g.tk = h.tk
      /\ \A d \in Digest : h.dg[d] = None => g.dg[d] = None
      /\ \A d \in Digest : h.dg[d] # None =>
            /\ g.dg[d] # None /\ g.dg[d].keyslots = h.dg[d].keyslots
            /\ g.dg[d].key = h.dg[d].key /\ (g.dg[d].segment <=> d = e)
  BY SegmentIs
<1> HIDE DEF g
<1>7. SlotsOf(g) = SlotsOf(h) /\ TokensOf(g) = TokensOf(h) /\ DigestsOf(g) = DigestsOf(h)
  BY <1>5 DEF SlotsOf, TokensOf, DigestsOf
<1>8. \A i : DigestSet(g, i) = DigestSet(h, i) /\ DigestsFrom(g, h, i)
  BY <1>5, <1>7 DEF DigestSet, DigestsOf, DigestsFrom
<1>9. \A i \in SlotsOf(g) : SameSlot(g.ks[i], h.ks[i]) /\ SameArea(g.ks[i], h.ks[i]) /\ g.ks[i].type = h.ks[i].type
  BY <1>5 DEF SameSlot, SameArea
<1>10. LUKS2_hdr_validate(g)
  <2>1. JsonSize(g) <= JsonMax
    BY <1>7, SizeShrinks DEF LUKS2_hdr_validate
  <2>2. \A t \in TokensOf(g) : g.tk[t].keyslots \subseteq SlotsOf(g)
    BY <1>5, <1>7 DEF LUKS2_hdr_validate
  <2>3. \A d \in DigestsOf(g) : g.dg[d].keyslots \subseteq SlotsOf(g)
    BY <1>5, <1>7 DEF LUKS2_hdr_validate, DigestsOf
  <2>4. \E d \in DigestsOf(g) : g.dg[d].segment
    BY <1>5, <1>7 DEF DigestsOf
  <2> QED
    BY <1>5, <1>7, <1>8, <1>9, <2>1, <2>2, <2>3, <2>4, ValidFrom
<1>11. ASSUME NEW K, HdrTold(h, K)
       PROVE  HdrTold(g, K)
  BY <1>11, <1>7, <1>8, <1>9, ToldFrom
<1>12. \A n : HdrSalted(h, n) => HdrSalted(g, n)
  BY <1>5, <1>7 DEF HdrSalted
<1> QED
  BY <1>5, <1>10, <1>11, <1>12 DEF g

(* verify_and_update_segment_digest.                                       *)
LEMMA SegmentHolds ==
    ASSUME KeyslotsInv, NEW c \in Ctx, verify_and_update_segment_digest(c)
    PROVE  KeyslotsInv'
<1>1. PICK k \in SlotsOf(mem[c]), p \in Pass :
          /\ LUKS2_open_and_verify(mem[c], k, p) # {}
          /\ LUKS2_hdr_write(c, update_volume_key_segment_digest(mem[c], LUKS2_digest_by_keyslot(mem[c], k)),
                             WriteJob(AnyOne, {}, FALSE))
  BY DEF verify_and_update_segment_digest
<1>2. Call(c) /\ UNCHANGED <<owed, salt>> /\ mem[c] # NoHdr
  BY DEF verify_and_update_segment_digest, Call
<1> DEFINE h == mem[c]
           e == LUKS2_digest_by_keyslot(h, k)
           g == update_volume_key_segment_digest(h, e)
<1>3. h \in Header /\ LUKS2_hdr_validate(h) /\ HdrSalted(h, salt) /\ \A K \in Tables : Told(K) => HdrTold(h, K)
  BY <1>2, MemGood
<1>4. e \in DigestsOf(h)
  BY <1>1, <1>3, DigestByKeyslot DEF LUKS2_open_and_verify, DigestSet
<1>5. LUKS2_hdr_write(c, g, WriteJob(AnyOne, {}, FALSE))
  BY <1>1
<1> HIDE DEF h, e
<1>6. /\ g \in Header /\ g.seq = h.seq /\ g.ks = h.ks /\ g.tk = h.tk /\ LUKS2_hdr_validate(g)
      /\ \A K : HdrTold(h, K) => HdrTold(g, K)
      /\ \A n : HdrSalted(h, n) => HdrSalted(g, n)
  BY <1>3, <1>4, SegmentValid
<1> HIDE DEF g
<1>7. /\ \A i \in SlotsOf(mem[c]) : g.ks[i] # None /\ SameSlot(g.ks[i], mem[c].ks[i])
      /\ \A s \in Token : s # AnyOne => g.tk[s] = mem[c].tk[s]
      /\ g.seq = mem[c].seq
  BY <1>6 DEF SlotsOf, SameSlot, SameArea, h
<1>8. HdrSalted(g, salt) /\ \A K \in Tables : Told(K) => HdrTold(g, K)
  BY <1>3, <1>6
<1>9. AnyOne \in Token \cup {AnyOne} /\ {} \in SUBSET Slot
  OBVIOUS
<1> QED
  BY <1>2, <1>5, <1>6, <1>7, <1>8, <1>9, HdrWriteHolds

(* A header whose keyslots have the same place and contents.               *)
LEMMA PriorityHolds ==
    ASSUME KeyslotsInv, NEW c \in Ctx, LUKS2_keyslot_priority_set(c)
    PROVE  KeyslotsInv'
<1>1. PICK k \in SlotsOf(mem[c]), prio \in {"normal", "prefer", "ignore"} :
          LUKS2_hdr_write(c, [mem[c] EXCEPT !.ks[k].prio = prio], WriteJob(AnyOne, {}, FALSE))
  BY DEF LUKS2_keyslot_priority_set
<1>2. Call(c) /\ UNCHANGED <<owed, salt>> /\ mem[c] # NoHdr
  BY DEF LUKS2_keyslot_priority_set, Call
<1> DEFINE h == mem[c]
           r == [h.ks[k] EXCEPT !.prio = prio]
           S == [h.ks EXCEPT ![k] = r]
           g == [h EXCEPT !.ks = S]
<1>3. h \in Header /\ LUKS2_hdr_validate(h) /\ HdrSalted(h, salt) /\ \A K \in Tables : Told(K) => HdrTold(h, K)
  BY <1>2, MemGood
<1>4. h.ks[k] \in KeyslotRecords /\ k \in Slot
  BY <1>3, FieldsAre
<1>5. r \in KeyslotRecords /\ SameSlot(r, h.ks[k])
  BY <1>4 DEF KeyslotRecords, SameSlot, SameArea
<1>6. LUKS2_hdr_write(c, g, WriteJob(AnyOne, {}, FALSE))
  <2>1. [mem[c] EXCEPT !.ks[k].prio = prio] = g
    OBVIOUS
  <2> HIDE DEF g
  <2> QED
    BY <1>1, <2>1
<1> HIDE DEF r, h
<1>7. /\ S \in [Slot -> {None} \cup KeyslotRecords] /\ S[k] = r /\ \A i \in Slot \ {k} : S[i] = h.ks[i]
  BY <1>3, <1>4, <1>5, FieldsAre
<1> HIDE DEF S
<1>8. g \in Header /\ g.seq = h.seq /\ g.ks = S /\ g.dg = h.dg /\ g.tk = h.tk
  BY <1>3, <1>7, HeaderIs
<1> HIDE DEF g
<1>9. r # None
  BY <1>5, NoneIs
<1>10. SlotsOf(g) = SlotsOf(h) /\ TokensOf(g) = TokensOf(h) /\ DigestsOf(g) = DigestsOf(h)
  BY <1>1, <1>4, <1>7, <1>8, <1>9 DEF SlotsOf, TokensOf, DigestsOf, h
<1>11. \A i : DigestSet(g, i) = DigestSet(h, i) /\ DigestsFrom(g, h, i)
  BY <1>8, <1>10 DEF DigestSet, DigestsFrom
<1>12. \A i \in SlotsOf(g) : SameSlot(g.ks[i], h.ks[i]) /\ SameArea(g.ks[i], h.ks[i]) /\ g.ks[i].type = h.ks[i].type
  <2>1. \A i \in Slot : SameSlot(h.ks[i], h.ks[i])
    BY DEF SameSlot, SameArea
  <2>2. \A i \in SlotsOf(g) : SameSlot(g.ks[i], h.ks[i])
    BY <1>5, <1>7, <1>8, <2>1 DEF SlotsOf
  <2> QED
    BY <2>2 DEF SameSlot
<1>13. LUKS2_hdr_validate(g)
  <2>1. JsonSize(g) <= JsonMax
    BY <1>3, <1>10, SizeShrinks DEF LUKS2_hdr_validate
  <2>2. \A t \in TokensOf(g) : g.tk[t].keyslots \subseteq SlotsOf(g)
    BY <1>3, <1>8, <1>10 DEF LUKS2_hdr_validate
  <2>3. \A d \in DigestsOf(g) : g.dg[d].keyslots \subseteq SlotsOf(g)
    BY <1>3, <1>8, <1>10 DEF LUKS2_hdr_validate
  <2>4. \E d \in DigestsOf(g) : g.dg[d].segment
    BY <1>3, <1>8, <1>10 DEF LUKS2_hdr_validate
  <2> QED
    BY <1>3, <1>8, <1>10, <1>11, <1>12, <2>1, <2>2, <2>3, <2>4, ValidFrom
<1>14. ASSUME NEW K \in Tables, Told(K)
       PROVE  HdrTold(g, K)
  BY <1>3, <1>14, <1>10, <1>11, <1>12, ToldFrom
<1>15. HdrSalted(g, salt)
  BY <1>3, <1>10, <1>12 DEF HdrSalted, SameSlot
<1>16. /\ \A i \in SlotsOf(mem[c]) : g.ks[i] # None /\ SameSlot(g.ks[i], mem[c].ks[i])
       /\ \A s \in Token : s # AnyOne => g.tk[s] = mem[c].tk[s]
       /\ g.seq = mem[c].seq
  BY <1>8, <1>10, <1>12 DEF SlotsOf, h
<1>17. AnyOne \in Token \cup {AnyOne} /\ {} \in SUBSET Slot
  OBVIOUS
<1> QED
  BY <1>2, <1>6, <1>8, <1>13, <1>14, <1>15, <1>16, <1>17, HdrWriteHolds

(* A header with another token in a place.                                 *)
WithToken(h, t, tok) == [h EXCEPT !.tk = [h.tk EXCEPT ![t] = tok]]

(* What else it has.                                                       *)
LEMMA TokenIs ==
    ASSUME NEW h \in Header, NEW t \in Token, NEW tok \in {None} \cup TokenRecords
    PROVE  LET g == WithToken(h, t, tok) IN
           /\ g \in Header /\ g.seq = h.seq /\ g.ks = h.ks /\ g.dg = h.dg
           /\ g.tk[t] = tok /\ \A s \in Token \ {t} : g.tk[s] = h.tk[s]
           /\ SlotsOf(g) = SlotsOf(h) /\ DigestsOf(g) = DigestsOf(h)
           /\ TokensOf(g) = IF tok = None THEN TokensOf(h) \ {t} ELSE TokensOf(h) \cup {t}
<1> DEFINE T == [h.tk EXCEPT ![t] = tok]
           g == WithToken(h, t, tok)
<1>0. g = [h EXCEPT !.tk = T]
  BY DEF WithToken
<1>1. T \in [Token -> {None} \cup TokenRecords] /\ T[t] = tok /\ \A s \in Token \ {t} : T[s] = h.tk[s]
  BY FieldsAre
<1> HIDE DEF T
<1>2. g \in Header /\ g.seq = h.seq /\ g.ks = h.ks /\ g.dg = h.dg /\ g.tk = T
  BY <1>0, <1>1, HeaderIs
<1> HIDE DEF g
<1>3. SlotsOf(g) = SlotsOf(h) /\ DigestsOf(g) = DigestsOf(h)
  BY <1>2 DEF SlotsOf, DigestsOf
<1>4. TokensOf(g) = IF tok = None THEN TokensOf(h) \ {t} ELSE TokensOf(h) \cup {t}
  BY <1>1, <1>2 DEF TokensOf
<1> QED
  BY <1>1, <1>2, <1>3, <1>4 DEF g, T

(* A header with a token for keyslots that are there.                      *)
LEMMA TokenStep ==
    ASSUME KeyslotsInv, NEW c \in Ctx, NEW t \in Token, NEW tok \in {None} \cup TokenRecords,
           NEW ks \in SUBSET SlotsOf(mem[c]),
           ks = IF tok = None THEN {} ELSE tok.keyslots,
           Call(c), UNCHANGED <<owed, salt>>,
           JsonSize(WithToken(mem[c], t, tok)) <= JsonMax,
           LUKS2_hdr_write(c, WithToken(mem[c], t, tok), WriteJob(t, ks, FALSE))
    PROVE  KeyslotsInv'
<1> DEFINE h == mem[c]
           g == WithToken(h, t, tok)
<1>1. mem[c] # NoHdr
  BY DEF Call
<1>2. h \in Header /\ LUKS2_hdr_validate(h) /\ HdrSalted(h, salt) /\ \A K \in Tables : Told(K) => HdrTold(h, K)
  BY <1>1, MemGood
<1>3. /\ g \in Header /\ g.seq = h.seq /\ g.ks = h.ks /\ g.dg = h.dg
      /\ g.tk[t] = tok /\ \A s \in Token \ {t} : g.tk[s] = h.tk[s]
      /\ SlotsOf(g) = SlotsOf(h) /\ DigestsOf(g) = DigestsOf(h)
      /\ TokensOf(g) = IF tok = None THEN TokensOf(h) \ {t} ELSE TokensOf(h) \cup {t}
  <2> HIDE DEF h
  <2> QED
    BY <1>2, TokenIs
<1>4. JsonSize(g) <= JsonMax /\ LUKS2_hdr_write(c, g, WriteJob(t, ks, FALSE))
  OBVIOUS
<1> HIDE DEF g
<1>5. \A i : DigestSet(g, i) = DigestSet(h, i) /\ DigestsFrom(g, h, i)
  BY <1>3 DEF DigestSet, DigestsFrom
<1>6. \A i \in SlotsOf(g) : SameSlot(g.ks[i], h.ks[i]) /\ SameArea(g.ks[i], h.ks[i]) /\ g.ks[i].type = h.ks[i].type
  BY <1>3 DEF SameSlot, SameArea
<1>7. LUKS2_hdr_validate(g)
  <2>1. ASSUME NEW s \in TokensOf(g)
        PROVE  g.tk[s].keyslots \subseteq SlotsOf(g)
    <3>1. CASE s = t
      <4>1. tok # None /\ g.tk[s] = tok
        BY <2>1, <3>1, <1>3 DEF TokensOf
      <4> QED
        BY <4>1, <1>3
    <3>2. CASE s # t
      <4>1. s \in TokensOf(h) /\ g.tk[s] = h.tk[s]
        BY <3>2, <2>1, <1>3 DEF TokensOf
      <4> QED
        BY <4>1, <1>2, <1>3 DEF LUKS2_hdr_validate
    <3> QED
      BY <3>1, <3>2
  <2>2. \A d \in DigestsOf(g) : g.dg[d].keyslots \subseteq SlotsOf(g)
    BY <1>2, <1>3 DEF LUKS2_hdr_validate
  <2>3. \E d \in DigestsOf(g) : g.dg[d].segment
    BY <1>2, <1>3 DEF LUKS2_hdr_validate
  <2> QED
    BY <1>2, <1>3, <1>4, <1>5, <1>6, <2>1, <2>2, <2>3, ValidFrom
<1>8. ASSUME NEW K \in Tables, Told(K)
      PROVE  HdrTold(g, K)
  BY <1>2, <1>3, <1>5, <1>6, <1>8, ToldFrom
<1>9. HdrSalted(g, salt)
  BY <1>2, <1>3 DEF HdrSalted
<1>10. /\ \A i \in SlotsOf(mem[c]) : g.ks[i] # None /\ SameSlot(g.ks[i], mem[c].ks[i])
       /\ \A s \in Token : s # t => g.tk[s] = mem[c].tk[s]
       /\ g.seq = mem[c].seq /\ TokenSlots(g, t) = ks
  BY <1>3, <1>6 DEF SlotsOf, TokenSlots
<1>11. t \in Token \cup {AnyOne} /\ ks \in SUBSET Slot
  BY DEF SlotsOf
<1> QED
  BY <1>3, <1>4, <1>7, <1>8, <1>9, <1>10, <1>11, HdrWriteHolds

(* LUKS2_token_assign, of keyslots that are there.                         *)
LEMMA TokenAssignHolds ==
    ASSUME KeyslotsInv, Careless = {}, NEW c \in Ctx, LUKS2_token_assign(c)
    PROVE  KeyslotsInv'
<1>1. PICK t \in TokensOf(mem[c]), k \in Slot, assign \in BOOLEAN :
          LET ks == IF assign THEN mem[c].tk[t].keyslots \cup {k} ELSE mem[c].tk[t].keyslots \ {k} IN
          /\ "assign" \in Careless \/ k \in SlotsOf(mem[c])
          /\ LUKS2_hdr_write(c, [mem[c] EXCEPT !.tk[t].keyslots = ks], WriteJob(t, ks, FALSE))
  BY DEF LUKS2_token_assign
<1> DEFINE h == mem[c]
           ks == IF assign THEN h.tk[t].keyslots \cup {k} ELSE h.tk[t].keyslots \ {k}
           tok == [h.tk[t] EXCEPT !.keyslots = ks]
           g == WithToken(h, t, tok)
<1>2. Call(c) /\ UNCHANGED <<owed, salt>> /\ mem[c] # NoHdr
  BY DEF LUKS2_token_assign, Call
<1>3. h \in Header /\ LUKS2_hdr_validate(h)
  BY <1>2, MemGood
<1>4. h.tk[t] \in TokenRecords /\ t \in Token /\ h.tk[t].keyslots \subseteq SlotsOf(h) /\ k \in SlotsOf(h)
  BY <1>1, <1>3, FieldsAre DEF LUKS2_hdr_validate
<1>5. ks \in SUBSET SlotsOf(h)
  BY <1>4
<1>6. LUKS2_hdr_write(c, g, WriteJob(t, ks, FALSE))
  <2>1. [mem[c] EXCEPT !.tk[t].keyslots = ks] = g
    BY DEF WithToken
  <2> HIDE DEF g, ks
  <2>2. LUKS2_hdr_write(c, [mem[c] EXCEPT !.tk[t].keyslots = ks], WriteJob(t, ks, FALSE))
    BY <1>1 DEF ks
  <2> QED
    BY <2>1, <2>2
<1> HIDE DEF ks
<1>7. tok \in TokenRecords /\ tok.keyslots = ks
  BY <1>4, <1>5 DEF TokenRecords, SlotsOf
<1> HIDE DEF tok
<1>8. tok # None
  BY <1>7, NoneIs
<1>9. tok \in {None} \cup TokenRecords /\ ks = IF tok = None THEN {} ELSE tok.keyslots
  BY <1>7, <1>8
<1>10. JsonSize(g) <= JsonMax
  <2>1. /\ g \in Header /\ g.seq = h.seq /\ g.ks = h.ks /\ g.dg = h.dg
        /\ g.tk[t] = tok /\ \A s \in Token \ {t} : g.tk[s] = h.tk[s]
        /\ SlotsOf(g) = SlotsOf(h) /\ DigestsOf(g) = DigestsOf(h)
        /\ TokensOf(g) = IF tok = None THEN TokensOf(h) \ {t} ELSE TokensOf(h) \cup {t}
    <3>1. h \in Header /\ t \in Token /\ tok \in {None} \cup TokenRecords
      BY <1>3, <1>4, <1>9
    <3> HIDE DEF h
    <3> QED
      BY <3>1, TokenIs
  <2> HIDE DEF g
  <2> QED
    BY <1>3, <1>4, <1>8, <2>1, SizeShrinks DEF LUKS2_hdr_validate
<1> QED
  BY <1>2, <1>4, <1>5, <1>6, <1>9, <1>10, TokenStep

(* LUKS2_token_create, also when there is no room for the token.           *)
LEMMA TokenCreateHolds ==
    ASSUME KeyslotsInv, NEW c \in Ctx, LUKS2_token_create(c)
    PROVE  KeyslotsInv'
<1>1. PICK t \in Token, ks \in SUBSET SlotsOf(mem[c]), remove \in BOOLEAN :
          LET tok == IF remove THEN None ELSE [type |-> "token", keyslots |-> ks]
              h == [mem[c] EXCEPT !.tk[t] = tok] IN
          /\ remove => ks = {}
          /\ IF ~remove /\ JsonSize(h) > JsonMax
             THEN mem' = [mem EXCEPT ![c].tk[t] = None] /\ Return(c)
             ELSE LUKS2_hdr_write(c, h, WriteJob(t, ks, FALSE))
  BY DEF LUKS2_token_create
<1> DEFINE h == mem[c]
           tok == IF remove THEN None ELSE [type |-> "token", keyslots |-> ks]
           g == WithToken(h, t, tok)
<1>2. Call(c) /\ UNCHANGED <<owed, salt>> /\ mem[c] # NoHdr
  BY DEF LUKS2_token_create, Call
<1>3. h \in Header /\ LUKS2_hdr_validate(h) /\ JsonSize(h) <= JsonMax
  BY <1>2, MemGood DEF LUKS2_hdr_validate
<1>4. tok \in {None} \cup TokenRecords /\ ks = IF tok = None THEN {} ELSE tok.keyslots
  <2>1. CASE remove
    BY <1>1, <2>1
  <2>2. CASE ~remove
    <3>1. tok = [type |-> "token", keyslots |-> ks]
      BY <2>2
    <3>2. tok \in TokenRecords /\ tok.keyslots = ks
      BY <3>1 DEF TokenRecords, SlotsOf
    <3>3. tok # None
      BY <3>2, NoneIs
    <3> QED
      BY <3>2, <3>3
  <2> QED
    BY <2>1, <2>2
<1>5. /\ g \in Header /\ g.seq = h.seq /\ g.ks = h.ks /\ g.dg = h.dg
      /\ g.tk[t] = tok /\ \A s \in Token \ {t} : g.tk[s] = h.tk[s]
      /\ SlotsOf(g) = SlotsOf(h) /\ DigestsOf(g) = DigestsOf(h)
      /\ TokensOf(g) = IF tok = None THEN TokensOf(h) \ {t} ELSE TokensOf(h) \cup {t}
  <2> HIDE DEF tok
  <2> QED
    <3>1. h \in Header /\ t \in Token /\ tok \in {None} \cup TokenRecords
      BY <1>3, <1>4
    <3> HIDE DEF h
    <3> QED
      BY <3>1, TokenIs
<1>6. [mem[c] EXCEPT !.tk[t] = tok] = g
  BY DEF WithToken
<1>7. IF ~remove /\ JsonSize(g) > JsonMax
      THEN mem' = [mem EXCEPT ![c].tk[t] = None] /\ Return(c)
      ELSE LUKS2_hdr_write(c, g, WriteJob(t, ks, FALSE))
  <2> HIDE DEF g
  <2>1. IF ~remove /\ JsonSize([mem[c] EXCEPT !.tk[t] = tok]) > JsonMax
        THEN mem' = [mem EXCEPT ![c].tk[t] = None] /\ Return(c)
        ELSE LUKS2_hdr_write(c, [mem[c] EXCEPT !.tk[t] = tok], WriteJob(t, ks, FALSE))
    BY <1>1
  <2> QED
    BY <2>1, <1>6
<1>8. remove => tok = None
  OBVIOUS
<1> HIDE DEF tok, g
<1>9. CASE JsonSize(g) <= JsonMax
  <2>1. LUKS2_hdr_write(c, g, WriteJob(t, ks, FALSE))
    <3>1. JsonSize(g) \in Nat /\ JsonMax \in Nat
      BY FiniteParts, FS_CardinalityType, Constants DEF JsonSize
    <3>2. ~(JsonSize(g) > JsonMax)
      BY <1>9, <3>1
    <3> QED
      BY <1>7, <3>2, Zenon
  <2> QED
    BY <1>2, <1>4, <1>9, <2>1, TokenStep DEF g
<1>10. CASE ~(JsonSize(g) <= JsonMax)
  <2>1. t \notin TokensOf(h)
    <3> SUFFICES ASSUME t \in TokensOf(h) PROVE FALSE
      OBVIOUS
    <3>1. TokensOf(g) \subseteq TokensOf(h)
      BY <1>5
    <3> QED
      BY <1>3, <1>5, <1>10, <3>1, SizeShrinks
  <2>2. h.tk[t] = None
    BY <2>1 DEF TokensOf
  <2>3. ~remove
    <3> SUFFICES ASSUME remove PROVE FALSE
      OBVIOUS
    <3>1. TokensOf(g) \subseteq TokensOf(h)
      BY <1>5, <1>8
    <3> QED
      BY <1>3, <1>5, <1>10, <3>1, SizeShrinks
  <2>4. mem' = [mem EXCEPT ![c].tk[t] = None] /\ Return(c)
    <3>1. JsonSize(g) \in Nat /\ JsonMax \in Nat
      BY FiniteParts, FS_CardinalityType, Constants DEF JsonSize
    <3>2. JsonSize(g) > JsonMax
      BY <1>10, <3>1
    <3> QED
      BY <1>7, <2>3, <3>2, Zenon
  <2>5. mem' = mem
    <3>1. [h.tk EXCEPT ![t] = None] = h.tk
      BY <1>3, <2>2, FieldsAre
    <3>2. [h EXCEPT !.tk = [h.tk EXCEPT ![t] = None]] = h
      BY <1>3, <3>1, HeaderIs
    <3>3. mem' = [mem EXCEPT ![c] = [h EXCEPT !.tk = [h.tk EXCEPT ![t] = None]]]
      BY <2>4
    <3>4. mem' = [mem EXCEPT ![c] = mem[c]]
      BY <3>2, <3>3
    <3> QED
      BY <3>4 DEF KeyslotsInv, TypePart
  <2>6. pc' = [pc EXCEPT ![c] = Idle] /\ Idle \in Resting /\ pc[c] = Idle /\ lock = NoOne
        /\ UNCHANGED <<disk, area, lock, backup, owed, asked, fresh, salt, faults>>
    BY <1>2, <2>4 DEF Call, Return, Resting
  <2>7. pc[c].at = "idle" /\ lock # c
    BY <2>6, Constants DEF Idle
  <2>8. mem[c].seq = disk.seq => mem[c] = disk
    BY <2>7 DEF KeyslotsInv, MemPart, MemOK, Synced
  <2> QED
    BY <1>2, <2>5, <2>6, <2>7, <2>8, GivesUp
<1> QED
  BY <1>9, <1>10

-----------------------------------------------------------------------------
(* Room for a keyslot                                                      *)

(* LUKS2_keyslot_find_empty gives a keyslot that is not in use.            *)
LEMMA FindEmptyIs ==
    ASSUME NEW h, LUKS2_keyslot_find_empty(h) # AnyOne
    PROVE  LUKS2_keyslot_find_empty(h) \in Slot /\ h.ks[LUKS2_keyslot_find_empty(h)] = None
<1> DEFINE free == Slot \ SlotsOf(h)
<1>1. free # {} /\ LUKS2_keyslot_find_empty(h) = Min(free)
  BY DEF LUKS2_keyslot_find_empty
<1>2. Min(free) \in free
  <2>1. free \in SUBSET Nat
    BY Constants
  <2> QED
    BY <1>1, <2>1, MinIs
<1> QED
  BY <1>1, <1>2 DEF SlotsOf

(* Gaps are inside of the binary area.                                     *)
LEMMA GapsAre ==
    ASSUME NEW h \in Header
    PROVE  /\ GapStarts(h) \in SUBSET Nat /\ GapStarts(h) # {} /\ \A o \in GapStarts(h) : o >= 1
           /\ \A o \in Nat : GapEnd(h, o) \in Nat /\ GapEnd(h, o) <= Units + 1
<1>1. \A k \in SlotsOf(h) : /\ h.ks[k].off \in Nat /\ h.ks[k].len \in Nat
                            /\ h.ks[k].off >= 1 /\ h.ks[k].len >= 1
  BY FieldsAre, Constants DEF KeyslotRecords
<1>2. GapStarts(h) \in SUBSET Nat /\ GapStarts(h) # {} /\ \A o \in GapStarts(h) : o >= 1
  BY <1>1 DEF GapStarts
<1>3. ASSUME NEW o \in Nat
      PROVE  GapEnd(h, o) \in Nat /\ GapEnd(h, o) <= Units + 1
  <2> DEFINE S == {Units + 1} \cup {h.ks[k].off : k \in {j \in SlotsOf(h) : h.ks[j].off >= o}}
  <2>1. S \in SUBSET Nat /\ Units + 1 \in S
    BY <1>1, Constants
  <2>2. Min(S) \in S /\ \A x \in S : Min(S) <= x
    <3> HIDE DEF S
    <3> QED
      BY <2>1, MinIs
  <2>3. GapEnd(h, o) = Min(S)
    BY DEF GapEnd
  <2> HIDE DEF S
  <2> QED
    BY <2>1, <2>2, <2>3
<1> QED
  BY <1>2, <1>3

(* LUKS2_find_area_gap gives room for an area of the size.                 *)
LEMMA GapIs ==
    ASSUME NEW h \in Header, NEW len, LUKS2_find_area_gap(h, len) # AnyOne
    PROVE  LET o == LUKS2_find_area_gap(h, len) IN
           o \in Nat /\ o >= 1 /\ GapEnd(h, o) \in Nat /\ GapEnd(h, o) <= Units + 1 /\ o + len <= GapEnd(h, o)
<1> DEFINE fit == {o \in GapStarts(h) : o + len <= GapEnd(h, o)}
<1>1. fit # {} /\ LUKS2_find_area_gap(h, len) = Min(fit)
  BY DEF LUKS2_find_area_gap
<1>2. fit \in SUBSET Nat
  BY GapsAre
<1>3. Min(fit) \in fit
  <2> HIDE DEF fit
  <2> QED
    BY <1>1, <1>2, MinIs
<1>4. Min(fit) \in Nat /\ Min(fit) >= 1 /\ Min(fit) + len <= GapEnd(h, Min(fit))
  BY <1>3, GapsAre
<1>5. GapEnd(h, Min(fit)) \in Nat /\ GapEnd(h, Min(fit)) <= Units + 1
  BY <1>4, GapsAre
<1> QED
  BY <1>1, <1>4, <1>5

(* LUKS2_find_area_max_gap stays inside of the binary area.                *)
LEMMA MaxGapIs ==
    ASSUME NEW h \in Header
    PROVE  LET gap == LUKS2_find_area_max_gap(h) IN
           gap[1] \in Nat /\ gap[1] >= 1 /\ gap[2] \in Int /\ gap[1] + gap[2] <= Units + 1
<1> DEFINE size(o) == GapEnd(h, o) - o
           best == {o \in GapStarts(h) : \A i \in GapStarts(h) : size(i) <= size(o)}
           S == {Units + 1 - size(o) : o \in GapStarts(h)}
<1>1. \A o \in GapStarts(h) : /\ o \in Nat /\ o >= 1 /\ GapEnd(h, o) \in Nat
                              /\ GapEnd(h, o) <= Units + 1 /\ size(o) \in Int
  BY GapsAre
<1>2. S \in SUBSET Nat /\ S # {}
  BY <1>1, GapsAre, Constants
<1>3. PICK o \in GapStarts(h) : \A x \in S : Units + 1 - size(o) <= x
  <2>1. Min(S) \in S /\ \A x \in S : Min(S) <= x
    <3> HIDE DEF S
    <3> QED
      BY <1>2, MinIs
  <2> QED
    BY <2>1
<1>4. \A i \in GapStarts(h) : size(i) <= size(o)
  <2> SUFFICES ASSUME NEW i \in GapStarts(h) PROVE size(i) <= size(o)
    OBVIOUS
  <2>1. Units + 1 - size(o) <= Units + 1 - size(i)
    BY <1>3
  <2>2. Units \in Nat /\ size(i) \in Int /\ size(o) \in Int
    BY <1>1, Constants
  <2> HIDE DEF size
  <2> QED
    BY <2>1, <2>2
<1>5. best # {} /\ best \in SUBSET Nat
  BY <1>1, <1>4
<1>6. Min(best) \in best
  <2> HIDE DEF best
  <2> QED
    BY <1>5, MinIs
<1>7. Min(best) \in GapStarts(h)
  BY <1>6
<1>8. LUKS2_find_area_max_gap(h) = <<Min(best), size(Min(best))>>
  BY DEF LUKS2_find_area_max_gap
<1> HIDE DEF best
<1> QED
  BY <1>1, <1>7, <1>8, Constants

(* A header with another keyslot in a place.                               *)
WithSlot(h, k, r) == [h EXCEPT !.ks = [h.ks EXCEPT ![k] = r]]

(* What else it has.                                                       *)
LEMMA SlotIs ==
    ASSUME NEW h \in Header, NEW k \in Slot, NEW r \in {None} \cup KeyslotRecords
    PROVE  LET g == WithSlot(h, k, r) IN
           /\ g \in Header /\ g.seq = h.seq /\ g.dg = h.dg /\ g.tk = h.tk
           /\ g.ks[k] = r /\ \A i \in Slot \ {k} : g.ks[i] = h.ks[i]
<1> DEFINE S == [h.ks EXCEPT ![k] = r]
<1>1. S \in [Slot -> {None} \cup KeyslotRecords] /\ S[k] = r /\ \A i \in Slot \ {k} : S[i] = h.ks[i]
  BY FieldsAre
<1> HIDE DEF S
<1>2. WithSlot(h, k, r) = [h EXCEPT !.ks = S]
  BY DEF WithSlot, S
<1> QED
  BY <1>1, <1>2, HeaderIs

(* A keyslot that was allocated or updated: it has the size of the key and *)
(* a new salt, a keyslot that was there keeps its area, and the header is  *)
(* valid.                                                                  *)
LEMMA PreparedIs ==
    ASSUME NEW h \in Header, NEW k \in Slot, NEW v \in Key, salt \in Nat, Prepared(h, k, v) # NoHdr
    PROVE  LET g == Prepared(h, k, v) IN
           /\ g \in Header /\ g.seq = h.seq /\ g.dg = h.dg /\ g.tk = h.tk /\ LUKS2_hdr_validate(g)
           /\ \A i \in Slot \ {k} : g.ks[i] = h.ks[i]
           /\ g.ks[k] \in KeyslotRecords /\ g.ks[k] # None /\ g.ks[k].type = "luks2"
           /\ g.ks[k].len = AreaLen[v] /\ g.ks[k].salt = salt + 1
           /\ h.ks[k] # None => SameArea(g.ks[k], h.ks[k])
<1> DEFINE off == LUKS2_find_area_gap(h, AreaLen[v])
           r == [type |-> "luks2", off |-> off, len |-> AreaLen[v], salt |-> salt + 1, prio |-> "normal"]
           s == [h.ks[k] EXCEPT !.salt = salt + 1]
           new == [h EXCEPT !.ks[k] = r]
           upd == [h EXCEPT !.ks[k].salt = salt + 1]
           g == IF h.ks[k] = None THEN new ELSE upd
<1>1. AreaLen[v] \in Nat /\ AreaLen[v] > 0 /\ Units \in Nat
  BY Constants
<1>2. /\ Prepared(h, k, v) = g /\ LUKS2_hdr_validate(g)
      /\ h.ks[k] = None => off # AnyOne
      /\ h.ks[k] # None => h.ks[k].type = "luks2" /\ h.ks[k].len = AreaLen[v]
  <2> HIDE DEF new, upd
  <2>1. Prepared(h, k, v) = IF \/ h.ks[k] = None /\ off = AnyOne
                               \/ h.ks[k] # None /\ (h.ks[k].type # "luks2" \/ h.ks[k].len # AreaLen[v])
                               \/ ~LUKS2_hdr_validate(g)
                            THEN NoHdr ELSE g
    BY DEF Prepared, new, upd
  <2> HIDE DEF g, off
  <2> QED
    BY <2>1
<1>3. CASE h.ks[k] = None
  <2>1. off \in Nat /\ off >= 1 /\ off + AreaLen[v] <= Units + 1
    <3>1. off \in Nat /\ off >= 1 /\ GapEnd(h, off) \in Nat /\ GapEnd(h, off) <= Units + 1
          /\ off + AreaLen[v] <= GapEnd(h, off)
      BY <1>2, <1>3, GapIs
    <3> HIDE DEF off
    <3> QED
      BY <3>1, <1>1
  <2>2. off \in 1..Units /\ AreaLen[v] \in 1..Units
    <3> HIDE DEF off
    <3> QED
      BY <2>1, <1>1
  <2>3. r \in KeyslotRecords
    <3> HIDE DEF off
    <3> QED
      BY <2>2 DEF KeyslotRecords
  <2>4. r.type = "luks2" /\ r.len = AreaLen[v] /\ r.salt = salt + 1
    OBVIOUS
  <2>5. r # None
    BY <2>3, NoneIs
  <2>6. g = WithSlot(h, k, r)
    BY <1>3 DEF WithSlot
  <2> HIDE DEF g, r
  <2> QED
    BY <1>2, <1>3, <2>3, <2>4, <2>5, <2>6, SlotIs
<1>4. CASE h.ks[k] # None
  <2>1. h.ks[k] \in KeyslotRecords
    BY <1>4, FieldsAre DEF SlotsOf
  <2>2. s \in KeyslotRecords /\ s.type = h.ks[k].type /\ s.len = h.ks[k].len /\ s.off = h.ks[k].off
        /\ s.salt = salt + 1
    BY <2>1 DEF KeyslotRecords
  <2>3. g = WithSlot(h, k, s)
    BY <1>4 DEF WithSlot
  <2> HIDE DEF g, s
  <2>4. s # None
    BY <2>2, NoneIs
  <2> QED
    BY <1>2, <1>4, <2>2, <2>3, <2>4, SlotIs DEF SameArea
<1> QED
  BY <1>3, <1>4

(* LUKS2_keyslot_reencrypt_create.                                         *)
LEMMA ReencryptCreateHolds ==
    ASSUME KeyslotsInv, NEW c \in Ctx, LUKS2_keyslot_reencrypt_create(c)
    PROVE  KeyslotsInv'
<1> DEFINE h == mem[c]
           k == LUKS2_keyslot_find_empty(h)
           gap == LUKS2_find_area_max_gap(h)
           ks == [type |-> "reencrypt", off |-> gap[1], len |-> gap[2], salt |-> 0, prio |-> "ignore"]
           x == WithSlot(h, k, ks)
           g == LUKS2_digests_erase_unused(x)
<1>1. Call(c) /\ UNCHANGED <<owed, salt>> /\ mem[c] # NoHdr /\ pc[c] = Idle /\ lock = NoOne
  BY DEF LUKS2_keyslot_reencrypt_create, Call
<1>2. /\ k # AnyOne /\ gap[2] > 0
      /\ IF LUKS2_hdr_validate(g)
         THEN mem' = [mem EXCEPT ![c] = g]
              /\ pc' = [pc EXCEPT ![c] = WriteJob(AnyOne, {}, TRUE)]
         ELSE Fail(c) /\ UNCHANGED mem
  BY DEF LUKS2_keyslot_reencrypt_create, WithSlot
<1>3. h \in Header /\ HdrSalted(h, salt) /\ \A K \in Tables : Told(K) => HdrTold(h, K)
  BY <1>1, MemGood
<1>4. k \in Slot /\ h.ks[k] = None
  BY <1>2, FindEmptyIs
<1>5. gap[1] \in Nat /\ gap[1] >= 1 /\ gap[2] \in Int /\ gap[1] + gap[2] <= Units + 1
  <2> HIDE DEF h
  <2> QED
    BY <1>3, MaxGapIs
<1>6. gap[1] \in 1..Units /\ gap[2] \in 1..Units
  <2> HIDE DEF gap
  <2> QED
    BY <1>2, <1>5, Constants
<1>7. ks \in KeyslotRecords /\ ks.type = "reencrypt" /\ ks.salt = 0
  <2> HIDE DEF gap
  <2> QED
    BY <1>6 DEF KeyslotRecords
<1>8. UNCHANGED <<disk, area, lock, backup, owed, asked, fresh, salt, faults>>
  BY <1>1 DEF Call
<1> HIDE DEF h, k, gap, ks
<1>9. ks # None
  BY <1>7, NoneIs
<1>10. /\ x \in Header /\ x.seq = h.seq /\ x.dg = h.dg /\ x.tk = h.tk
       /\ x.ks[k] = ks /\ \A i \in Slot \ {k} : x.ks[i] = h.ks[i]
  BY <1>3, <1>4, <1>7, SlotIs
<1> HIDE DEF x
<1>11. g \in Header /\ g.seq = x.seq /\ g.ks = x.ks /\ g.tk = x.tk
  BY <1>10, EraseIs
<1>12. HdrSalted(x, salt)
  <2>1. salt \in Nat /\ 0 <= salt
    BY TypesAre DEF KeyslotsInv
  <2> QED
    BY <2>1, <1>3, <1>7, <1>10 DEF HdrSalted, SlotsOf
<1>13. ASSUME NEW K \in Tables, Told(K)
       PROVE  HdrTold(x, K)
  <2>1. \A i \in SlotsOf(x) : x.ks[i].type = "luks2" => i # k /\ i \in SlotsOf(h) /\ SameSlot(x.ks[i], h.ks[i])
    BY <1>7, <1>10 DEF SlotsOf, SameSlot, SameArea
  <2>2. \A i : DigestsFrom(x, h, i)
    BY <1>10 DEF DigestsFrom, DigestSet, DigestsOf
  <2> QED
    BY <1>3, <1>13, <2>1, <2>2, ToldFrom
<1>14. HdrSalted(g, salt) /\ \A K \in Tables : Told(K) => HdrTold(g, K)
  BY <1>10, <1>12, <1>13, EraseKeeps
<1> HIDE DEF g
<1>15. CASE LUKS2_hdr_validate(g)
  <2>1. mem' = [mem EXCEPT ![c] = g] /\ pc' = [pc EXCEPT ![c] = WriteJob(AnyOne, {}, TRUE)]
    BY <1>2, <1>15
  <2>2. mem[c] = disk =>
              /\ \A i \in SlotsOf(disk) : g.ks[i] # None /\ SameSlot(g.ks[i], disk.ks[i])
              /\ \A s \in Token : s # AnyOne => g.tk[s] = disk.tk[s]
    <3>1. \A i \in SlotsOf(h) : i # k /\ g.ks[i] = h.ks[i] /\ h.ks[i] # None
      BY <1>4, <1>10, <1>11 DEF SlotsOf
    <3> QED
      BY <3>1, <1>10, <1>11 DEF SameSlot, SameArea, h
  <2>3. AnyOne \in Token \cup {AnyOne} /\ {} \in SUBSET Slot /\ TRUE \in BOOLEAN /\ g.seq = mem[c].seq
    BY <1>10, <1>11 DEF h
  <2> QED
    BY <1>1, <1>8, <1>11, <1>14, <1>15, <2>1, <2>2, <2>3, WriteStep
<1>16. CASE ~LUKS2_hdr_validate(g)
  <2>1. Fail(c) /\ mem' = mem
    BY <1>2, <1>16
  <2>2. pc' = [pc EXCEPT ![c] = [at |-> "reload"]] /\ [at |-> "reload"] \in Resting
        /\ [at |-> "reload"] # Idle /\ pc[c].at # "reload" /\ lock # c
    BY <1>1, <2>1, Constants DEF Fail, Resting, Idle
  <2> QED
    BY <1>1, <1>8, <2>1, <2>2, GivesUp
<1> QED
  BY <1>15, <1>16

-----------------------------------------------------------------------------
(* A keyslot is prepared in memory                                         *)

(* The type of what a context does, from its step.                         *)
LEMMA JobTypes ==
    ASSUME TypePart, NEW c \in Ctx
    PROVE  /\ pc[c].at \in {"store", "commit", "wipe", "destroy", "destroyed"} => pc[c] \in Jobs
           /\ pc[c].at = "write" => pc[c] \in Writes
<1>1. pc[c] \in Resting => pc[c].at \in {"idle", "reload"}
  BY DEF Resting, Idle
<1>2. pc[c] \in Jobs => pc[c].at \in {"store", "commit", "wipe", "destroy", "destroyed"}
  BY DEF Jobs
<1>3. pc[c] \in Writes => pc[c].at = "write"
  BY DEF Writes
<1> QED
  BY <1>1, <1>2, <1>3, TypesAre

(* A new salt may stand for any passphrase and key.                        *)
LEMMA FreshTold ==
    ASSUME KeyslotsInv, NEW K \in Tables, Told(K), NEW p \in Pass, NEW v \in Key
    PROVE  LET L == [K EXCEPT ![salt + 1] = <<p, v>>] IN
           /\ L \in Tables /\ Told(L) /\ L[salt + 1] = <<p, v>> /\ L[salt + 1][2] = v
           /\ \A n \in Nat : n <= salt => L[n] = K[n]
           /\ \A h \in Header : HdrSalted(h, salt) /\ HdrTold(h, K) => HdrTold(h, L)
<1> USE DEF KeyslotsInv
<1> DEFINE L == [K EXCEPT ![salt + 1] = <<p, v>>]
<1>1. salt \in Nat /\ salt + 1 \in Nat
  BY TypesAre
<1>2. L \in Tables /\ L[salt + 1] = <<p, v>> /\ \A n \in Nat : n <= salt => L[n] = K[n]
  BY <1>1 DEF Tables
<1> HIDE DEF L
<1>3. ASSUME NEW h \in Header, HdrSalted(h, salt), HdrTold(h, K)
      PROVE  HdrTold(h, L)
  <2>1. \A k \in SlotsOf(h) : L[h.ks[k].salt] = K[h.ks[k].salt]
    <3>1. \A k \in SlotsOf(h) : h.ks[k].salt \in Nat /\ h.ks[k].salt <= salt
      BY <1>3, FieldsAre DEF KeyslotRecords, HdrSalted
    <3> QED
      BY <3>1, <1>2
  <2> QED
    BY <1>3, <2>1 DEF HdrTold, SlotTold
<1>4. ASSUME NEW a \in Areas, AreaSalted(a, salt), AreaTold(a, K)
      PROVE  AreaTold(a, L)
  <2>1. \A u \in 1..Units : a[u] # Junk => a[u][1] \in Nat /\ a[u][1] <= salt
    BY <1>4 DEF Areas, AreaSalted
  <2> QED
    BY <1>2, <1>4, <2>1 DEF AreaTold
<1>5. ASSUME NEW c \in Ctx, Keeping(c)
      PROVE  L[mem[c].ks[pc[c].slot].salt] = <<pc[c].pass, pc[c].key>>
  <2>1. pc[c].slot \in Slot
    BY <1>5, JobTypes DEF Keeping, Storing, Removing, Jobs
  <2>2. mem[c].ks[pc[c].slot] # None
    BY <1>5 DEF JobPart, JobOK, Keeping
  <2>3. mem[c] # NoHdr
    BY <1>5 DEF JobPart, JobOK, Keeping, Storing, Removing, Idle
  <2>4. mem[c] \in Header /\ pc[c].slot \in SlotsOf(mem[c]) /\ HdrSalted(mem[c], salt)
    BY <2>1, <2>2, <2>3, TypesAre DEF SlotsOf, SaltPart
  <2>5. mem[c].ks[pc[c].slot].salt \in Nat /\ mem[c].ks[pc[c].slot].salt <= salt
    BY <2>4, FieldsAre DEF HdrSalted, KeyslotRecords
  <2> QED
    BY <1>2, <1>5, <2>5 DEF Told
<1>6. Told(L)
  <2>1. HdrTold(disk, L) /\ AreaTold(area, L)
    BY <1>3, <1>4, TypesAre DEF SaltPart, Told
  <2>2. \A c \in Ctx : mem[c] # NoHdr => HdrTold(mem[c], L)
    BY <1>3, TypesAre DEF SaltPart, Told
  <2>3. backup # NoHdr => HdrTold(backup.hdr, L) /\ AreaTold(backup.area, L)
    BY <1>3, <1>4, TypesAre DEF SaltPart, Told
  <2> QED
    BY <1>5, <2>1, <2>2, <2>3 DEF Told
<1>7. L[salt + 1][2] = v
  BY <1>2
<1> QED
  BY <1>2, <1>3, <1>6, <1>7 DEF L

(* A header with a prepared keyslot agrees with the table that has the     *)
(* passphrase and the key for the new salt.                                *)
LEMMA PreparedTold ==
    ASSUME KeyslotsInv, NEW c \in Ctx, mem[c] # NoHdr, NEW h \in Header, NEW k \in Slot, NEW v \in Key,
           NEW p \in Pass, h.ks = mem[c].ks,
           \A i \in Slot \ {k} : DigestsFrom(h, mem[c], i),
           \E d \in DigestSet(h, k) : h.dg[d].key = v,
           Prepared(h, k, v) # NoHdr, NEW K \in Tables, Told(K)
    PROVE  LET g == Prepared(h, k, v)  L == [K EXCEPT ![salt + 1] = <<p, v>>] IN
           /\ L \in Tables /\ Told(L) /\ HdrTold(g, L) /\ L[g.ks[k].salt] = <<p, v>>
           /\ HdrSalted(g, salt + 1)
<1> DEFINE g == Prepared(h, k, v)
           L == [K EXCEPT ![salt + 1] = <<p, v>>]
<1>1. salt \in Nat
  BY TypesAre DEF KeyslotsInv
<1>2. /\ g \in Header /\ g.dg = h.dg /\ LUKS2_hdr_validate(g)
      /\ \A i \in Slot \ {k} : g.ks[i] = h.ks[i]
      /\ g.ks[k] # None /\ g.ks[k].type = "luks2"
      /\ g.ks[k].len = AreaLen[v] /\ g.ks[k].salt = salt + 1
  BY <1>1, PreparedIs
<1>3. /\ L \in Tables /\ Told(L) /\ L[salt + 1] = <<p, v>> /\ L[salt + 1][2] = v
      /\ \A n \in Nat : n <= salt => L[n] = K[n]
  BY FreshTold
<1>4. mem[c] \in Header /\ HdrSalted(mem[c], salt) /\ HdrTold(mem[c], L)
  BY <1>3, MemGood
<1> HIDE DEF g, L
<1>5. ASSUME NEW i \in SlotsOf(g), g.ks[i].type = "luks2"
      PROVE  SlotTold(g, i, L)
  <2>1. CASE i = k
    <3>1. PICK d \in DigestSet(h, k) : h.dg[d].key = v
      OBVIOUS
    <3>2. DigestSet(g, k) = DigestSet(h, k)
      BY <1>2 DEF DigestSet, DigestsOf
    <3>3. PICK e : DigestSet(g, k) = {e}
      BY <1>2, <1>5, <2>1, OneDigest DEF LUKS2_hdr_validate
    <3>4. \A f \in DigestSet(g, k) : g.dg[f].key = v
      BY <1>2, <3>1, <3>2, <3>3
    <3> QED
      BY <1>2, <1>3, <2>1, <3>4 DEF SlotTold
  <2>2. CASE i # k
    <3>1. i \in Slot /\ i \in SlotsOf(mem[c]) /\ g.ks[i] = mem[c].ks[i]
      BY <1>2, <2>2 DEF SlotsOf
    <3>2. SlotTold(mem[c], i, L)
      BY <1>4, <1>5, <3>1 DEF HdrTold
    <3>3. DigestSet(g, i) = DigestSet(h, i)
      BY <1>2 DEF DigestSet, DigestsOf
    <3>4. DigestsFrom(h, mem[c], i)
      BY <2>2, <3>1
    <3> QED
      BY <1>2, <3>1, <3>2, <3>3, <3>4 DEF SlotTold, DigestsFrom
  <2> QED
    BY <2>1, <2>2
<1>6. HdrSalted(g, salt + 1)
  <2> SUFFICES ASSUME NEW i \in SlotsOf(g) PROVE
      g.ks[i].salt <= salt + 1 /\ (g.ks[i].type = "reencrypt" => g.ks[i].salt = 0)
    BY DEF HdrSalted
  <2>1. CASE i = k
    BY <2>1, <1>1, <1>2
  <2>2. CASE i # k
    <3>1. i \in SlotsOf(mem[c]) /\ g.ks[i] = mem[c].ks[i]
      BY <1>2, <2>2 DEF SlotsOf
    <3>2. /\ g.ks[i].salt \in Nat /\ g.ks[i].salt <= salt
          /\ g.ks[i].type = "reencrypt" => g.ks[i].salt = 0
      BY <1>4, <3>1, FieldsAre DEF HdrSalted, KeyslotRecords
    <3> QED
      BY <1>1, <3>2
  <2> QED
    BY <2>1, <2>2
<1>7. HdrTold(g, L) /\ L[g.ks[k].salt] = <<p, v>>
  BY <1>2, <1>3, <1>5 DEF HdrTold
<1> QED
  BY <1>3, <1>6, <1>7 DEF g, L

(* The job of storing passphrase p and key v in keyslot k, and of          *)
(* destroying keyslot old then.                                            *)
Prepares(job, k, v, p, old) ==
    LET j == [job EXCEPT !.at = "store"] IN
    /\ job.slot = k /\ job.key = v
    /\ j \in Jobs /\ j.at = "store" /\ j.slot = k /\ j.key = v /\ j.pass = p /\ j.old = old

(* LUKS2_keyslot_store in memory: the start of all calls that store a      *)
(* keyslot.                                                                *)
LEMMA StoreStart ==
    ASSUME KeyslotsInv, NEW c \in Ctx, Call(c), NEW h \in Header, NEW k \in Slot, NEW v \in Key,
           NEW p \in Pass, NEW old \in Slot \cup {AnyOne}, NEW job, Prepares(job, k, v, p, old),
           LUKS2_keyslot_store(c, h, job), OwedMore,
           old # k, old # AnyOne => mem[c].ks[old] # None /\ mem[c].ks[old].type = "luks2",
           h.ks = mem[c].ks, h.seq = mem[c].seq,
           h.tk = IF old = AnyOne THEN mem[c].tk ELSE LUKS2_token_assignment_copy(mem[c], old, k).tk,
           \A i \in Slot \ {k} : DigestsFrom(h, mem[c], i),
           \E d \in DigestSet(h, k) : h.dg[d].key = v,
           old # AnyOne => DigestSet(h, old) \cap DigestSet(h, k) # {},
           old # AnyOne /\ mem[c] = disk => \A e \in owed' :
              \/ {old, k} \subseteq e.slots /\ p \in e.passes /\ v = e.key
              \/ HeldBy(disk, area, e, e.slots \ (Dooms \cup {old}))
    PROVE  KeyslotsInv'
<1> USE DEF KeyslotsInv
<1> DEFINE g == Prepared(h, k, v)
           j == [job EXCEPT !.at = "store"]
<1>0. job.slot = k /\ job.key = v
  BY DEF Prepares
<1>1. /\ pc[c] = Idle /\ pc[c].at = "idle" /\ mem[c] # NoHdr /\ lock = NoOne /\ lock # c
      /\ UNCHANGED <<disk, area, lock, backup, asked, fresh, faults>>
  BY Constants DEF Call, Idle
<1>2. CASE g = NoHdr
  <2>1. Fail(c) /\ UNCHANGED <<mem, salt>>
    BY <1>0, <1>2 DEF LUKS2_keyslot_store
  <2>2. pc' = [pc EXCEPT ![c] = [at |-> "reload"]] /\ [at |-> "reload"] \in Resting
        /\ [at |-> "reload"] # Idle /\ pc[c].at # "reload" /\ mem' = mem
    BY <1>1, <2>1 DEF Fail, Resting, Idle
  <2>3. UNCHANGED <<disk, area, lock, backup, asked, fresh, salt, faults>>
    BY <1>1, <2>1
  <2> QED
    BY <1>1, <2>2, <2>3, GivesUpMore
<1>3. CASE g # NoHdr
  <2>1. mem' = [mem EXCEPT ![c] = g] /\ salt' = salt + 1 /\ pc' = [pc EXCEPT ![c] = j]
    BY <1>0, <1>3 DEF LUKS2_keyslot_store, Go
  <2>2. salt \in Nat /\ faults \in Nat /\ fresh \subseteq Ctx
    BY TypesAre DEF TypePart, KeyslotsTypeOK
  <2>3. /\ g \in Header /\ g.seq = h.seq /\ g.dg = h.dg /\ g.tk = h.tk /\ LUKS2_hdr_validate(g)
        /\ \A i \in Slot \ {k} : g.ks[i] = h.ks[i]
        /\ g.ks[k] # None /\ g.ks[k].type = "luks2"
        /\ g.ks[k].salt = salt + 1
        /\ h.ks[k] # None => SameArea(g.ks[k], h.ks[k])
    BY <1>3, <2>2, PreparedIs
  <2>4. PICK K \in Tables : Told(K)
    BY DEF ToldPart
  <2> DEFINE L == [K EXCEPT ![salt + 1] = <<p, v>>]
  <2>5. /\ L \in Tables /\ Told(L) /\ HdrTold(g, L) /\ L[g.ks[k].salt] = <<p, v>>
        /\ HdrSalted(g, salt + 1)
    BY <1>1, <1>3, <2>4, PreparedTold
  <2> HIDE DEF g, L
  <2>6. /\ j \in Jobs /\ j.at = "store" /\ j.slot = k /\ j.key = v /\ j.pass = p /\ j.old = old
    BY DEF Prepares
  <2> HIDE DEF j
  <2>7. mem'[c] = g /\ pc'[c] = j
    BY <2>1 DEF TypePart
  <2>8. Storing(c)' /\ ~Removing(c)' /\ ~Doomer(c)'
    BY <2>6, <2>7 DEF Storing, Removing, Doomer
  <2>9. JobOK(c)'
    <3>1. old # AnyOne => old \in Slot \ {k}
      OBVIOUS
    <3>2. old # AnyOne => g.ks[old] # None /\ g.ks[old].type = "luks2"
      BY <3>1, <2>3
    <3>3. g # NoHdr
      BY <1>3 DEF g
    <3>4. g.ks[k].salt > 0
      BY <2>2, <2>3
    <3>5. old # AnyOne => DigestSet(g, old) \cap DigestSet(g, k) # {}
      BY <2>3 DEF DigestSet, DigestsOf
    <3> QED
      BY <2>3, <2>6, <2>7, <2>8, <3>2, <3>3, <3>4, <3>5 DEF JobOK
  <2>10. Synced(c)' => mem[c] = disk
    BY <1>1, <2>3, <2>7 DEF Synced, MemPart, MemOK
  <2>11. ASSUME Synced(c)'
         PROVE  MemOK(c)'
    <3>1. mem[c] = disk
      BY <2>10, <2>11
    <3>2. \A i \in Slot \ {k} : g.ks[i] = disk.ks[i]
      BY <2>3, <3>1
    <3>3. \A i \in SlotsOf(disk) : disk.ks[i].salt # g.ks[k].salt
      <4>1. \A i \in SlotsOf(disk) : disk.ks[i].salt \in Nat /\ disk.ks[i].salt <= salt
        BY TypesAre, FieldsAre DEF SaltPart, HdrSalted, KeyslotRecords
      <4> QED
        BY <4>1, <2>2, <2>3
    <3>4. disk.ks[k] # None => SameArea(disk.ks[k], g.ks[k])
      BY <2>3, <3>1 DEF SameArea
    <3>5. g.tk = IF old = AnyOne THEN disk.tk ELSE LUKS2_token_assignment_copy(disk, old, k).tk
      BY <2>3, <3>1
    <3>6. Stores(c)'
      <4>1. disk' = disk
        BY <1>1
      <4> QED
        BY <2>6, <2>7, <3>2, <3>3, <3>4, <3>5, <4>1 DEF Stores, SlotsOf
    <3> QED
      BY <2>6, <2>7, <3>6 DEF MemOK
  <2>12. Steps(c, g, j)
    <3>1. g \in Header \cup {NoHdr} /\ j \in Resting \cup Jobs \cup Writes
      BY <2>3, <2>6
    <3>2. salt' \in Nat /\ salt <= salt' /\ faults' \in Nat /\ faults <= faults' /\ fresh' \subseteq Ctx
      BY <1>1, <2>1, <2>2
    <3>3. lock' = lock /\ lock' # c /\ j.at \notin {"commit", "destroyed"}
      BY <1>1, <2>6
    <3>4. g.seq <= disk'.seq
      BY <1>1, <2>3 DEF SeqPart
    <3>5. LUKS2_hdr_validate(g) /\ HdrSalted(g, salt')
      BY <2>1, <2>3, <2>5
    <3> QED
      BY <2>1, <2>9, <2>11, <3>1, <3>2, <3>3, <3>4, <3>5 DEF Steps
  <2>13. ASSUME Synced(c)'
         PROVE  OwedAfter(c)'
    <3>1. mem[c] = disk
      BY <2>10, <2>13
    <3>2. Dooms' \subseteq Dooms
      BY <1>1, <2>8, <2>12, DoomsShrink
    <3>3. ASSUME NEW e \in owed', old # AnyOne
          PROVE  \/ {old, k} \subseteq e.slots /\ p \in e.passes /\ v = e.key
                 \/ HeldBy(disk, area, e, e.slots \ (Dooms' \cup {old}))
      <4>1. e.slots \ (Dooms \cup {old}) \subseteq e.slots \ (Dooms' \cup {old})
        BY <3>2
      <4>2. HeldBy(disk, area, e, e.slots \ (Dooms \cup {old}))
               => HeldBy(disk, area, e, e.slots \ (Dooms' \cup {old}))
        BY <4>1, HeldMore
      <4>3. \/ {old, k} \subseteq e.slots /\ p \in e.passes /\ v = e.key
            \/ HeldBy(disk, area, e, e.slots \ (Dooms \cup {old}))
        BY <3>1, <3>3
      <4> QED
        BY <4>2, <4>3
    <3> QED
      BY <1>1, <2>6, <2>7, <2>8, <3>3 DEF OwedAfter
  <2>14. UNCHANGED <<disk, backup, asked, area>> /\ j.at \notin {"commit", "destroyed"}
         /\ pc[c].at # "commit"
    BY <1>1, <2>6
  <2>15. L[g.ks[j.slot].salt] = <<j.pass, j.key>>
    BY <2>5, <2>6
  <2> QED
    BY <2>5, <2>8, <2>12, <2>13, <2>14, <2>15, LocalMore
<1> QED
  BY <1>2, <1>3

(* The jobs of the three calls.                                            *)
LEMMA JobPrepares ==
    ASSUME NEW k \in Slot, NEW v \in Key, NEW p \in Pass
    PROVE  /\ Prepares(Job(k, v, p), k, v, p, AnyOne)
           /\ \A newkey \in BOOLEAN : Prepares([Job(k, v, p) EXCEPT !.newkey = newkey], k, v, p, AnyOne)
           /\ \A old \in Slot, swap \in BOOLEAN :
                 Prepares([Job(k, v, p) EXCEPT !.old = old, !.swap = swap], k, v, p, old)
<1>1. Prepares(Job(k, v, p), k, v, p, AnyOne)
  BY DEF Prepares, Job, Jobs
<1>2. ASSUME NEW newkey \in BOOLEAN
      PROVE  Prepares([Job(k, v, p) EXCEPT !.newkey = newkey], k, v, p, AnyOne)
  BY DEF Prepares, Job, Jobs
<1>3. ASSUME NEW old \in Slot, NEW swap \in BOOLEAN
      PROVE  Prepares([Job(k, v, p) EXCEPT !.old = old, !.swap = swap], k, v, p, old)
  BY DEF Prepares, Job, Jobs
<1> QED
  BY <1>1, <1>2, <1>3

(* keyslot_verify_or_find_empty gives a keyslot that is not in use.        *)
LEMMA EmptyIs ==
    ASSUME NEW h, NEW slot \in Slot \cup {AnyOne}, NEW k \in keyslot_verify_or_find_empty(h, slot)
    PROVE  k \in Slot /\ h.ks[k] = None
<1>1. /\ k = IF slot = AnyOne THEN LUKS2_keyslot_find_empty(h) ELSE slot
      /\ k # AnyOne /\ h.ks[k] = None
  BY DEF keyslot_verify_or_find_empty
<1> QED
  BY <1>1, FindEmptyIs

(* The assignment of one keyslot is no matter to the others.               *)
LEMMA AssignDigests ==
    ASSUME NEW h \in Header, NEW k \in Slot, NEW d \in DigestsOf(h)
    PROVE  LET g == LUKS2_digest_assign(h, k, d) IN
           /\ \A i \in Slot \ {k} : DigestsFrom(g, h, i)
           /\ d \in DigestSet(g, k) /\ g.dg[d].key = h.dg[d].key
<1> DEFINE g == LUKS2_digest_assign(h, k, d)
<1>1. /\ \A e \in Digest \ {d} : g.dg[e] = h.dg[e]
      /\ g.dg[d] # None /\ g.dg[d].keyslots = h.dg[d].keyslots \cup {k}
      /\ g.dg[d].key = h.dg[d].key
  BY AssignIs
<1> HIDE DEF g
<1>2. d \in Digest /\ h.dg[d] # None
  BY DEF DigestsOf
<1>3. \A i \in Slot \ {k} : DigestsFrom(g, h, i)
  BY <1>1, <1>2 DEF DigestsFrom, DigestSet, DigestsOf
<1>4. d \in DigestSet(g, k)
  BY <1>1, <1>2 DEF DigestSet, DigestsOf
<1> QED
  BY <1>1, <1>3, <1>4 DEF g

(* A call that adds a keyslot for the key of digest d.                     *)
LEMMA AddHolds ==
    ASSUME KeyslotsInv, NEW c \in Ctx, Call(c), owed' = owed, NEW h \in Header,
           h.ks = mem[c].ks, h.seq = mem[c].seq, h.tk = mem[c].tk, mem[c] \in Header,
           \A i : DigestsFrom(h, mem[c], i),
           NEW k \in Slot, NEW d \in DigestsOf(h), NEW p \in Pass, NEW job,
           Prepares(job, k, h.dg[d].key, p, AnyOne),
           LUKS2_keyslot_store(c, LUKS2_digest_assign(h, k, d), job)
    PROVE  KeyslotsInv'
<1> DEFINE v == h.dg[d].key
           g == LUKS2_digest_assign(h, k, d)
<1>1. /\ g \in Header /\ g.seq = h.seq /\ g.ks = h.ks /\ g.tk = h.tk
  BY AssignIs
<1>2. /\ \A i \in Slot \ {k} : DigestsFrom(g, h, i)
      /\ d \in DigestSet(g, k) /\ g.dg[d].key = v
  BY AssignDigests
<1>3. \A i \in Slot \ {k} : DigestsFrom(g, mem[c], i)
  BY <1>2 DEF DigestsFrom
<1>4. v \in Key
  BY FieldsAre DEF DigestRecords
<1>5. LUKS2_keyslot_store(c, g, job) /\ Prepares(job, k, v, p, AnyOne)
  OBVIOUS
<1> HIDE DEF g, v
<1>7. OwedMore /\ AnyOne # k /\ AnyOne \in Slot \cup {AnyOne}
  BY OwedSame, Constants DEF KeyslotsInv
<1>8. \E e \in DigestSet(g, k) : g.dg[e].key = v
  BY <1>2
<1>9. g.tk = mem[c].tk /\ g.ks = mem[c].ks /\ g.seq = mem[c].seq
  BY <1>1
<1> QED
  BY <1>1, <1>3, <1>4, <1>5, <1>7, <1>8, <1>9, StoreStart

(* crypt_keyslot_add_by_passphrase.                                        *)
LEMMA AddByPassphraseHolds ==
    ASSUME KeyslotsInv, NEW c \in Ctx, crypt_keyslot_add_by_passphrase(c)
    PROVE  KeyslotsInv'
<1> DEFINE h == mem[c]
           d == LUKS2_digest_by_segment(h)
<1>1. Call(c) /\ owed' = owed /\ mem[c] # NoHdr
  BY DEF crypt_keyslot_add_by_passphrase, Call
<1>2. PICK slot \in Slot \cup {AnyOne}, np \in Pass :
      \E k \in keyslot_verify_or_find_empty(h, slot) : \E v :
          IF d # AnyOne /\ h.dg[d].key = v
          THEN LUKS2_keyslot_store(c, LUKS2_digest_assign(h, k, d), Job(k, v, np))
          ELSE Fail(c) /\ UNCHANGED <<mem, salt>>
  BY DEF crypt_keyslot_add_by_passphrase
<1>3. PICK k \in keyslot_verify_or_find_empty(h, slot) : \E v :
          IF d # AnyOne /\ h.dg[d].key = v
          THEN LUKS2_keyslot_store(c, LUKS2_digest_assign(h, k, d), Job(k, v, np))
          ELSE Fail(c) /\ UNCHANGED <<mem, salt>>
  BY <1>2
<1>4. PICK v :
          IF d # AnyOne /\ h.dg[d].key = v
          THEN LUKS2_keyslot_store(c, LUKS2_digest_assign(h, k, d), Job(k, v, np))
          ELSE Fail(c) /\ UNCHANGED <<mem, salt>>
  BY <1>3
<1>5. h \in Header
  BY <1>1, MemGood
<1>6. k \in Slot
  BY EmptyIs
<1>7. CASE d # AnyOne /\ h.dg[d].key = v
  <2>1. LUKS2_keyslot_store(c, LUKS2_digest_assign(h, k, d), Job(k, h.dg[d].key, np))
    BY <1>4, <1>7
  <2>2. d \in DigestsOf(h)
    BY <1>5, <1>7, DigestBySegment
  <2>3. Prepares(Job(k, h.dg[d].key, np), k, h.dg[d].key, np, AnyOne)
    BY <1>5, <1>6, <2>2, JobPrepares, FieldsAre DEF DigestRecords
  <2> HIDE DEF d
  <2>4. \A i : DigestsFrom(h, mem[c], i)
    BY DEF DigestsFrom
  <2> QED
    BY <1>1, <1>5, <1>6, <2>1, <2>2, <2>3, <2>4, AddHolds
<1>8. CASE ~(d # AnyOne /\ h.dg[d].key = v)
  <2>1. Fail(c) /\ UNCHANGED <<mem, salt>>
    BY <1>4, <1>8
  <2>2. pc' = [pc EXCEPT ![c] = [at |-> "reload"]] /\ [at |-> "reload"] \in Resting
        /\ [at |-> "reload"] # Idle /\ pc[c].at # "reload" /\ mem' = mem /\ lock # c
    BY <1>1, <2>1, Constants DEF Fail, Resting, Idle, Call
  <2>3. UNCHANGED <<disk, area, lock, backup, owed, asked, fresh, salt, faults>>
    BY <1>1, <2>1 DEF Call
  <2> QED
    BY <1>1, <2>2, <2>3, GivesUp
<1> QED
  BY <1>7, <1>8

(* crypt_keyslot_add_by_key: with the digest of the segment, another one,  *)
(* or a new one.                                                           *)
LEMMA AddByKeyHolds ==
    ASSUME KeyslotsInv, NEW c \in Ctx, crypt_keyslot_add_by_key(c)
    PROVE  KeyslotsInv'
<1> DEFINE h == mem[c]
           s == LUKS2_digest_by_segment(h)
           bySegment(v) == s # AnyOne /\ h.dg[s].key = v
           same(v) == {e \in DigestsOf(h) : h.dg[e].key = v}
           dig(v, reuse) == IF bySegment(v) THEN s
                            ELSE IF reuse /\ same(v) # {} THEN Min(same(v)) ELSE AnyOne
           new(v, set) == set /\ ~bySegment(v)
           create(v, noseg, set, reuse) ==
              (noseg \/ new(v, set)) /\ (dig(v, reuse) = AnyOne \/ ~reuse)
           full == Digest \ DigestsOf(h) = {}
           first == Min(Digest \ DigestsOf(h))
<1>1. Call(c) /\ owed' = owed /\ mem[c] # NoHdr
  BY DEF crypt_keyslot_add_by_key, Call
<1>2. PICK slot \in Slot \cup {AnyOne}, v \in Key, np \in Pass, noseg, set, reuse \in BOOLEAN :
      \E k \in keyslot_verify_or_find_empty(mem[c], slot) :
         /\ ~(noseg /\ set)
         /\ IF IF create(v, noseg, set, reuse) THEN full ELSE dig(v, reuse) = AnyOne
            THEN Fail(c) /\ UNCHANGED <<mem, salt>>
            ELSE LUKS2_keyslot_store(c,
                    LUKS2_digest_assign(IF create(v, noseg, set, reuse) /\ ~full
                                        THEN LUKS2_digest_create(h, v) ELSE h, k,
                                        IF create(v, noseg, set, reuse) THEN first ELSE dig(v, reuse)),
                    [Job(k, v, np) EXCEPT !.newkey = new(v, set)])
  BY Zenon DEF crypt_keyslot_add_by_key
<1> DEFINE cr == create(v, noseg, set, reuse)
           h1 == IF cr /\ ~full THEN LUKS2_digest_create(h, v) ELSE h
           d1 == IF cr THEN first ELSE dig(v, reuse)
           nk == new(v, set)
<1>3. PICK k \in keyslot_verify_or_find_empty(h, slot) :
         IF IF cr THEN full ELSE dig(v, reuse) = AnyOne
         THEN Fail(c) /\ UNCHANGED <<mem, salt>>
         ELSE LUKS2_keyslot_store(c, LUKS2_digest_assign(h1, k, d1), [Job(k, v, np) EXCEPT !.newkey = nk])
  BY <1>2, Zenon
<1>4. h \in Header
  BY <1>1, MemGood
<1>5. k \in Slot
  BY EmptyIs
<1>6. nk \in BOOLEAN
  OBVIOUS
<1>7. CASE IF cr THEN full ELSE dig(v, reuse) = AnyOne
  <2>1. Fail(c) /\ UNCHANGED <<mem, salt>>
    BY <1>3, <1>7
  <2>2. pc' = [pc EXCEPT ![c] = [at |-> "reload"]] /\ [at |-> "reload"] \in Resting
        /\ [at |-> "reload"] # Idle /\ pc[c].at # "reload" /\ mem' = mem /\ lock # c
    BY <1>1, <2>1, Constants DEF Fail, Resting, Idle, Call
  <2>3. UNCHANGED <<disk, area, lock, backup, owed, asked, fresh, salt, faults>>
    BY <1>1, <2>1 DEF Call
  <2> QED
    BY <1>1, <2>2, <2>3, GivesUp
<1>8. CASE ~(IF cr THEN full ELSE dig(v, reuse) = AnyOne)
  <2>1. LUKS2_keyslot_store(c, LUKS2_digest_assign(h1, k, d1), [Job(k, v, np) EXCEPT !.newkey = nk])
    BY <1>3, <1>8
  <2>2. /\ h1 \in Header /\ h1.ks = h.ks /\ h1.seq = h.seq /\ h1.tk = h.tk
        /\ \A i : DigestsFrom(h1, h, i)
        /\ d1 \in DigestsOf(h1) /\ h1.dg[d1].key = v
    <3>1. CASE cr
      <4> DEFINE g == LUKS2_digest_create(h, v)
      <4>1. h1 = g /\ d1 = first /\ ~full
        BY <1>8, <3>1
      <4>2. /\ first \in Digest \ DigestsOf(h)
            /\ g \in Header /\ g.seq = h.seq /\ g.ks = h.ks /\ g.tk = h.tk
            /\ \A e \in Digest \ {first} : g.dg[e] = h.dg[e]
            /\ g.dg[first] # None /\ g.dg[first].keyslots = {} /\ g.dg[first].key = v
        BY <1>4, <4>1, CreateIs
      <4> HIDE DEF h1, d1, first, g, h, cr
      <4>3. \A i : DigestsFrom(g, h, i)
        BY <4>2 DEF DigestsFrom, DigestSet, DigestsOf
      <4>4. first \in DigestsOf(g)
        BY <4>2 DEF DigestsOf
      <4> QED
        BY <4>1, <4>2, <4>3, <4>4
    <3>2. CASE ~cr
      <4>1. h1 = h /\ d1 = dig(v, reuse) /\ dig(v, reuse) # AnyOne
        BY <1>8, <3>2
      <4>2. dig(v, reuse) \in DigestsOf(h) /\ h.dg[dig(v, reuse)].key = v
        <5>1. CASE bySegment(v)
          BY <1>4, <5>1, DigestBySegment
        <5>2. CASE ~bySegment(v)
          <6>1. same(v) # {} /\ dig(v, reuse) = Min(same(v))
            BY <4>1, <5>2
          <6>2. same(v) \in SUBSET Nat
            BY Constants DEF DigestsOf
          <6>3. Min(same(v)) \in same(v)
            <7> HIDE DEF same
            <7> QED
              BY <6>1, <6>2, MinIs
          <6> QED
            BY <6>1, <6>3
        <5> QED
          BY <5>1, <5>2
      <4>3. \A i : DigestsFrom(h, h, i)
        BY DEF DigestsFrom
      <4> HIDE DEF h1, d1, dig, h
      <4> QED
        BY <1>4, <4>1, <4>2, <4>3
    <3> QED
      BY <3>1, <3>2
  <2> HIDE DEF h1, d1, nk
  <2> DEFINE job == [Job(k, v, np) EXCEPT !.newkey = nk]
  <2>3. Prepares(job, k, h1.dg[d1].key, np, AnyOne)
    BY <1>5, <1>6, <2>2, JobPrepares
  <2>4. LUKS2_keyslot_store(c, LUKS2_digest_assign(h1, k, d1), job)
    BY <2>1
  <2> HIDE DEF job
  <2> QED
    BY <1>1, <1>4, <1>5, <2>2, <2>3, <2>4, AddHolds
<1> QED
  BY <1>7, <1>8

(* A call that is going to wipe or to destroy a keyslot.                   *)
LEMMA JobStart ==
    ASSUME KeyslotsInv, NEW c \in Ctx, Call(c), UNCHANGED <<mem, owed, salt>>,
           NEW j \in Jobs, pc' = [pc EXCEPT ![c] = j], j.at \in {"wipe", "destroy"},
           j.at = "destroy" => j.slot = j.old /\ j.swap = FALSE,
           JobOK(c)'
    PROVE  KeyslotsInv'
<1> USE DEF KeyslotsInv
<1>1. /\ pc[c] = Idle /\ pc[c].at = "idle" /\ mem[c] # NoHdr /\ lock = NoOne /\ lock # c
      /\ UNCHANGED <<disk, area, lock, backup, asked, fresh, faults>>
  BY Constants DEF Call, Idle
<1>2. mem' = [mem EXCEPT ![c] = mem[c]] /\ mem'[c] = mem[c] /\ pc'[c] = j
  BY DEF TypePart
<1>3. ~Storing(c)' /\ (Removing(c)' => ~Changing(c)')
  BY <1>2 DEF Storing, Removing, Changing
<1>4. ~Keeping(c)' /\ ~Doomer(c)' /\ OwedAfter(c)'
  BY <1>2, <1>3 DEF Keeping, Doomer, OwedAfter, Removing
<1>5. ASSUME Synced(c)'
      PROVE  MemOK(c)'
  <2>1. mem[c] = disk
    BY <1>1, <1>2, <1>5 DEF Synced, MemPart, MemOK
  <2>2. j.at = "destroy" => mem[c] = Exchanged(disk, j)
    BY <2>1 DEF Exchanged
  <2> QED
    BY <1>1, <1>2, <1>3, <2>1, <2>2 DEF MemOK
<1>6. mem[c] \in Header /\ LUKS2_hdr_validate(mem[c]) /\ HdrSalted(mem[c], salt)
      /\ \A K \in Tables : Told(K) => HdrTold(mem[c], K)
  BY <1>1, MemGood
<1>7. Steps(c, mem[c], j)
  <2>1. salt' \in Nat /\ salt <= salt' /\ faults' \in Nat /\ faults <= faults' /\ fresh' \subseteq Ctx
    BY <1>1, TypesAre DEF TypePart, KeyslotsTypeOK
  <2>2. lock' = lock /\ lock' # c /\ j.at \notin {"commit", "destroyed"}
    BY <1>1
  <2>3. mem[c].seq <= disk'.seq
    BY <1>1 DEF SeqPart
  <2>4. mem[c] \in Header \cup {NoHdr} /\ j \in Resting \cup Jobs \cup Writes /\ HdrSalted(mem[c], salt')
    BY <1>6
  <2> QED
    BY <1>2, <1>5, <1>6, <2>1, <2>2, <2>3, <2>4 DEF Steps
<1>8. PICK K \in Tables : Told(K)
  BY DEF ToldPart
<1>9. OwedMore /\ HdrTold(mem[c], K) /\ UNCHANGED <<disk, backup, asked, area>>
  BY <1>1, <1>6, <1>8, OwedSame
<1> QED
  BY <1>1, <1>4, <1>7, <1>8, <1>9, LocalMore

(* crypt_keyslot_destroy.                                                  *)
LEMMA DestroyCallHolds ==
    ASSUME KeyslotsInv, NEW c \in Ctx, crypt_keyslot_destroy(c)
    PROVE  KeyslotsInv'
<1>1. PICK k \in SlotsOf(mem[c]) : Go(c, [Job(k, "none", "none") EXCEPT !.old = k], "destroy")
  BY DEF crypt_keyslot_destroy
<1>2. Call(c) /\ UNCHANGED <<mem, owed, salt>> /\ mem[c] # NoHdr
  BY DEF crypt_keyslot_destroy, Call
<1> DEFINE j == [[Job(k, "none", "none") EXCEPT !.old = k] EXCEPT !.at = "destroy"]
<1>3. pc' = [pc EXCEPT ![c] = j]
  BY <1>1 DEF Go
<1>4. k \in Slot /\ mem[c].ks[k] # None
  BY DEF SlotsOf
<1>5. j \in Jobs /\ j.at = "destroy" /\ j.slot = k /\ j.old = k
  BY <1>4 DEF Jobs, Job
<1>6. j.swap = FALSE
  BY DEF Job
<1> HIDE DEF j
<1>7. pc'[c] = j /\ mem'[c] = mem[c]
  BY <1>2, <1>3 DEF KeyslotsInv, TypePart
<1>8. JobOK(c)'
  <2>1. ~Storing(c)' /\ ~Changing(c)' /\ ~pc'[c].swap
    BY <1>5, <1>6, <1>7 DEF Storing, Changing
  <2> QED
    BY <1>2, <1>4, <1>5, <1>7, <2>1 DEF JobOK
<1> QED
  BY <1>2, <1>3, <1>5, <1>6, <1>8, JobStart

(* A keyslot that LUKS2_keyslot_open finds is there and gives a key.       *)
LEMMA OpenIs ==
    ASSUME NEW h \in Header, NEW slot, NEW p, NEW any, NEW k \in LUKS2_keyslot_open(h, slot, p, any)
    PROVE  /\ k \in SlotsOf(h) /\ KeyOf(h, k, p) \in LUKS2_open_and_verify(h, k, p)
<1>1. k \in SlotsOf(h) /\ LUKS2_open_and_verify(h, k, p) # {}
  BY DEF LUKS2_keyslot_open
<1>2. \E v \in Key : v \in LUKS2_open_and_verify(h, k, p)
  BY <1>1 DEF LUKS2_open_and_verify
<1> QED
  BY <1>1, <1>2 DEF KeyOf

(* What a keyslot that gives a key has.                                    *)
LEMMA VerifiedIs ==
    ASSUME NEW h \in Header, NEW k \in SlotsOf(h), NEW p, NEW v \in LUKS2_open_and_verify(h, k, p)
    PROVE  /\ v \in Key /\ h.ks[k] # None /\ h.ks[k].type = "luks2"
           /\ \A u \in Span(h.ks[k]) : area[u] = <<h.ks[k].salt, p, v>>
           /\ LUKS2_digest_by_keyslot(h, k) \in DigestSet(h, k)
           /\ h.dg[LUKS2_digest_by_keyslot(h, k)].key = v
  BY DigestByKeyslot DEF LUKS2_open_and_verify

(* crypt_keyslot_change_by_passphrase: in place, or with a second keyslot, *)
(* which the promise that is changed gets at once.                         *)
LEMMA ChangeHolds ==
    ASSUME KeyslotsInv, NEW c \in Ctx, crypt_keyslot_change_by_passphrase(c)
    PROVE  KeyslotsInv'
<1> DEFINE h == mem[c]
           va(old, p) == KeyOf(h, old, p)
           empty == LUKS2_keyslot_find_empty(h)
           to(want, old, p) == IF want # AnyOne THEN want
                     ELSE IF empty = AnyOne \/ LUKS2_find_area_gap(h, AreaLen[va(old, p)]) = AnyOne
                          THEN old ELSE empty
           hh(old, new) == LUKS2_token_assignment_copy(
                        LUKS2_digest_assign(h, new, LUKS2_digest_by_keyslot(h, old)), old, new)
           more(old, new, v, p, np) == {IF old \in e.slots /\ v = e.key /\ p \in e.passes
                              THEN [e EXCEPT !.slots = @ \cup {new}, !.passes = @ \cup {np}]
                              ELSE e : e \in owed}
<1>1. Call(c) /\ mem[c] # NoHdr
  BY DEF crypt_keyslot_change_by_passphrase, Call
<1>2. PICK ask \in Slot \cup {AnyOne}, want \in Slot \cup {AnyOne}, p \in Pass, np \in Pass :
      \E old \in LUKS2_keyslot_open(mem[c], ask, p, TRUE) :
         IF to(want, old, p) = old
         THEN Go(c, Job(old, va(old, p), np), "wipe") /\ UNCHANGED <<mem, owed, salt>>
         ELSE /\ LUKS2_keyslot_store(c, hh(old, to(want, old, p)),
                    [Job(to(want, old, p), va(old, p), np) EXCEPT !.old = old, !.swap = (want = AnyOne)])
              /\ owed' = more(old, to(want, old, p), va(old, p), p, np)
  BY Zenon DEF crypt_keyslot_change_by_passphrase
<1>3. PICK old \in LUKS2_keyslot_open(mem[c], ask, p, TRUE) :
         IF to(want, old, p) = old
         THEN Go(c, Job(old, va(old, p), np), "wipe") /\ UNCHANGED <<mem, owed, salt>>
         ELSE /\ LUKS2_keyslot_store(c, hh(old, to(want, old, p)),
                    [Job(to(want, old, p), va(old, p), np) EXCEPT !.old = old, !.swap = (want = AnyOne)])
              /\ owed' = more(old, to(want, old, p), va(old, p), p, np)
  BY <1>2
<1> DEFINE v == va(old, p)
           new == to(want, old, p)
           d == LUKS2_digest_by_keyslot(h, old)
<1>4. h \in Header
  BY <1>1, MemGood
<1>5. old \in SlotsOf(h) /\ v \in LUKS2_open_and_verify(h, old, p)
  BY <1>4, OpenIs
<1> HIDE DEF v, h
<1>6. /\ v \in Key /\ h.ks[old] # None /\ h.ks[old].type = "luks2"
      /\ \A u \in Span(h.ks[old]) : area[u] = <<h.ks[old].salt, p, v>>
      /\ d \in DigestSet(h, old) /\ h.dg[d].key = v
  BY <1>4, <1>5, VerifiedIs
<1>7. old \in Slot /\ new \in Slot
  <2>1. empty # AnyOne => empty \in Slot
    BY FindEmptyIs
  <2> HIDE DEF empty
  <2> QED
    BY <1>5, <2>1 DEF SlotsOf
<1>8. IF new = old
      THEN Go(c, Job(old, v, np), "wipe") /\ UNCHANGED <<mem, owed, salt>>
      ELSE /\ LUKS2_keyslot_store(c, hh(old, new), [Job(new, v, np) EXCEPT !.old = old, !.swap = (want = AnyOne)])
           /\ owed' = more(old, new, v, p, np)
  BY <1>3, Zenon DEF v, h
<1> HIDE DEF new, d
<1>9. d \in DigestsOf(h) /\ old \in h.dg[d].keyslots
  BY <1>6 DEF DigestSet
<1>10. CASE new = old
  <2>1. Go(c, Job(old, v, np), "wipe") /\ UNCHANGED <<mem, owed, salt>>
    BY <1>8, <1>10
  <2> DEFINE j == [Job(old, v, np) EXCEPT !.at = "wipe"]
  <2>2. pc' = [pc EXCEPT ![c] = j]
    BY <2>1 DEF Go
  <2>3. j \in Jobs /\ j.at = "wipe" /\ j.slot = old /\ j.old = AnyOne /\ j.key = v /\ j.pass = np
    BY <1>6, <1>7 DEF Jobs, Job
  <2> HIDE DEF j
  <2>4. pc'[c] = j /\ mem'[c] = mem[c] /\ mem[c] = h /\ AnyOne # old
    BY <1>7, <2>1, <2>2, Constants DEF KeyslotsInv, TypePart, h
  <2>5. JobOK(c)'
    <3>1. ~Storing(c)' /\ ~Removing(c)'
      BY <2>3, <2>4 DEF Storing, Removing
    <3>2. h # NoHdr
      BY <1>1 DEF h
    <3>3. \E e \in DigestsOf(h) : old \in h.dg[e].keyslots /\ h.dg[e].key = v
      BY <1>6, <1>9
    <3> QED
      BY <1>6, <2>3, <2>4, <3>1, <3>2, <3>3 DEF JobOK, DigestsOf
  <2> QED
    BY <1>1, <2>1, <2>2, <2>3, <2>5, JobStart
<1>11. CASE new # old
  <2> DEFINE job == [Job(new, v, np) EXCEPT !.old = old, !.swap = (want = AnyOne)]
             g == LUKS2_digest_assign(h, new, d)
             h1 == LUKS2_token_assignment_copy(g, old, new)
  <2>1. LUKS2_keyslot_store(c, h1, job) /\ owed' = more(old, new, v, p, np)
    BY <1>8, <1>11 DEF d
  <2>2. Prepares(job, new, v, np, old)
    <3>1. (want = AnyOne) \in BOOLEAN
      OBVIOUS
    <3> QED
      BY <1>6, <1>7, <3>1, JobPrepares
  <2> HIDE DEF job
  <2>3. /\ g \in Header /\ g.seq = h.seq /\ g.ks = h.ks /\ g.tk = h.tk
    BY <1>4, <1>7, <1>9, AssignIs
  <2>4. /\ \A i \in Slot \ {new} : DigestsFrom(g, h, i)
        /\ d \in DigestSet(g, new) /\ g.dg[d].key = v
    BY <1>4, <1>6, <1>7, <1>9, AssignDigests
  <2> HIDE DEF g
  <2>5. /\ h1 \in Header /\ h1.seq = g.seq /\ h1.ks = g.ks /\ h1.dg = g.dg
    BY <1>7, <2>3, CopyIs
  <2>6. h1.tk = LUKS2_token_assignment_copy(h, old, new).tk
    <3> DEFINE T == [t \in Token |-> IF h.tk[t] # None /\ old \in h.tk[t].keyslots
                        THEN [h.tk[t] EXCEPT !.keyslots = @ \cup {new}] ELSE h.tk[t]]
    <3>1. h1 = [g EXCEPT !.tk = T]
      BY <2>3 DEF LUKS2_token_assignment_copy
    <3>2. LUKS2_token_assignment_copy(h, old, new) = [h EXCEPT !.tk = T]
      BY DEF LUKS2_token_assignment_copy
    <3> HIDE DEF T, h1
    <3> QED
      BY <1>4, <2>3, <3>1, <3>2, HeaderIs
  <2> HIDE DEF h1
  <2>7. /\ \A i \in Slot \ {new} : DigestsFrom(h1, h, i)
        /\ \E e \in DigestSet(h1, new) : h1.dg[e].key = v
    <3>1. \A i : DigestSet(h1, i) = DigestSet(g, i)
      BY <2>5 DEF DigestSet, DigestsOf
    <3> QED
      BY <2>4, <2>5, <3>1 DEF DigestsFrom
  <2>8. ASSUME NEW e \in owed'
        PROVE  \E f \in owed : e = IF old \in f.slots /\ v = f.key /\ p \in f.passes
                              THEN [f EXCEPT !.slots = @ \cup {new}, !.passes = @ \cup {np}] ELSE f
    BY <2>1
  <2>9. ASSUME NEW f \in owed
        PROVE  LET x == [f EXCEPT !.slots = @ \cup {new}, !.passes = @ \cup {np}] IN
               /\ x \in Promises /\ x.slots = f.slots \cup {new} /\ x.passes = f.passes \cup {np}
               /\ x.key = f.key /\ f \in Promises
    <3>1. f \in Promises
      BY TypesAre DEF KeyslotsInv
    <3> QED
      BY <1>7, <3>1 DEF Promises
  <2>10. OwedMore
    <3> SUFFICES ASSUME NEW e \in owed'
                 PROVE  e \in Promises /\ \E f \in owed :
                          f.slots \subseteq e.slots /\ f.passes \subseteq e.passes /\ f.key = e.key
      BY DEF OwedMore
    <3>1. PICK f \in owed : e = IF old \in f.slots /\ v = f.key /\ p \in f.passes
                              THEN [f EXCEPT !.slots = @ \cup {new}, !.passes = @ \cup {np}] ELSE f
      BY <2>8
    <3>2. CASE old \in f.slots /\ v = f.key /\ p \in f.passes
      <4>1. e \in Promises /\ e.slots = f.slots \cup {new} /\ e.passes = f.passes \cup {np} /\ e.key = f.key
        BY <2>9, <3>1, <3>2
      <4> QED
        BY <4>1
    <3>3. CASE ~(old \in f.slots /\ v = f.key /\ p \in f.passes)
      <4>1. e = f /\ e \in Promises
        BY <2>9, <3>1, <3>3
      <4> QED
        BY <4>1
    <3> QED
      BY <3>2, <3>3
  <2>11. ASSUME h = disk, NEW e \in owed'
         PROVE  \/ {old, new} \subseteq e.slots /\ np \in e.passes /\ v = e.key
                \/ HeldBy(disk, area, e, e.slots \ (Dooms \cup {old}))
    <3>1. PICK f \in owed : e = IF old \in f.slots /\ v = f.key /\ p \in f.passes
                              THEN [f EXCEPT !.slots = @ \cup {new}, !.passes = @ \cup {np}] ELSE f
      BY <2>8
    <3>2. CASE old \in f.slots /\ v = f.key /\ p \in f.passes
      <4>1. e.slots = f.slots \cup {new} /\ e.passes = f.passes \cup {np} /\ e.key = f.key
        BY <2>9, <3>1, <3>2
      <4> QED
        BY <3>2, <4>1
    <3>3. CASE ~(old \in f.slots /\ v = f.key /\ p \in f.passes)
      <4>1. e = f
        BY <3>1, <3>3
      <4>2. HeldBy(disk, area, f, f.slots \ Dooms)
        BY DEF KeyslotsInv, OwedPart
      <4>3. PICK k \in f.slots \ Dooms : Carries(disk.ks[k], area, f)
        BY <4>2 DEF HeldBy
      <4>4. k # old
        <5> SUFFICES ASSUME k = old PROVE FALSE
          OBVIOUS
        <5>1. PICK q \in f.passes : \A u \in Span(h.ks[old]) : area[u] = <<h.ks[old].salt, q, f.key>>
          BY <2>11, <4>3 DEF Carries
        <5>2. PICK u : u \in Span(h.ks[old])
          BY <1>4, <1>5, FieldsAre, SpanIs
        <5>3. <<h.ks[old].salt, q, f.key>> = <<h.ks[old].salt, p, v>>
          BY <1>6, <5>1, <5>2
        <5>4. q = p /\ f.key = v
          BY <5>3
        <5> QED
          BY <3>3, <4>3, <5>4
      <4> QED
        BY <4>1, <4>3, <4>4 DEF HeldBy
    <3> QED
      BY <3>2, <3>3
  <2>12. old # AnyOne /\ old \in Slot \cup {AnyOne} /\ mem[c] = h
    BY <1>7, Constants DEF h
  <2>15. DigestSet(h1, old) \cap DigestSet(h1, new) # {}
    <3>1. d \in DigestSet(h1, new) /\ d \in DigestsOf(h1)
      BY <2>4, <2>5 DEF DigestSet, DigestsOf
    <3>2. g.dg[d].keyslots = h.dg[d].keyslots \cup {new}
      BY <1>4, <1>7, <1>9, AssignIs DEF g
    <3> QED
      BY <1>9, <2>5, <3>1, <3>2 DEF DigestSet
  <2>13. h1.ks = mem[c].ks /\ h1.seq = mem[c].seq
         /\ h1.tk = IF old = AnyOne THEN mem[c].tk ELSE LUKS2_token_assignment_copy(mem[c], old, new).tk
    BY <2>3, <2>5, <2>6, <2>12
  <2>14. /\ mem[c].ks[old] # None /\ mem[c].ks[old].type = "luks2"
         /\ \A i \in Slot \ {new} : DigestsFrom(h1, mem[c], i)
    BY <1>6, <2>7, <2>12
  <2> QED
    BY <1>1, <1>6, <1>7, <1>11, <2>1, <2>2, <2>5, <2>7, <2>10, <2>11, <2>12, <2>13, <2>14, <2>15, StoreStart
<1> QED
  BY <1>10, <1>11

-----------------------------------------------------------------------------
(* Backup and restore                                                      *)

(* LUKS2_hdr_backup.                                                       *)
LEMMA BackupHolds ==
    ASSUME KeyslotsInv, NEW c \in Ctx, LUKS2_hdr_backup(c)
    PROVE  KeyslotsInv'
<1> USE DEF KeyslotsInv
<1> DEFINE b == [hdr |-> disk, area |-> area, owed |-> owed, asked |-> asked]
<1>1. /\ backup' = b
      /\ UNCHANGED <<disk, area, mem, pc, lock, owed, asked, fresh, salt, faults>>
  BY DEF LUKS2_hdr_backup, promises
<1>2. disk \in Header /\ area \in Areas /\ owed \subseteq Promises /\ asked \in [Token -> SUBSET Slot]
  BY TypesAre DEF TypePart, KeyslotsTypeOK
<1>3. b \in Backups /\ b.hdr = disk /\ b.area = area /\ b.owed = owed /\ b.asked = asked
  BY <1>2 DEF Backups
<1> HIDE DEF b
<1>4. b # NoHdr
  BY <1>3, NoHdrIs
<1>5. TypePart'
  <2>1. KeyslotsTypeOK'
    BY <1>1 DEF TypePart, KeyslotsTypeOK
  <2>2. (backup \in Backups \cup {NoHdr})'
    BY <1>1, <1>3
  <2>3. {salt, faults}' \subseteq Nat
    BY <1>1 DEF TypePart
  <2> QED
    BY <1>1, <2>1, <2>2, <2>3 DEF TypePart
<1>6. JobPart'
  BY <1>1 DEF JobPart, JobOK, Storing, Removing, Changing
<1>7. SeqPart'
  BY <1>1, <1>3 DEF SeqPart, Synced
<1>8. ValidPart'
  BY <1>1, <1>3 DEF ValidPart
<1>9. MemPart'
  BY <1>1 DEF MemPart, MemOK, Synced, Storing, Stores, WritesHeader
<1>10. SaltPart'
  BY <1>1, <1>3 DEF SaltPart
<1>11. ToldPart'
  <2>1. PICK K \in Tables : Told(K)
    BY DEF ToldPart
  <2>2. \A x \in Ctx : Keeping(x)' <=> Keeping(x)
    BY <1>1 DEF Keeping, Storing, Removing, Changing
  <2>3. Told(K)'
    BY <1>1, <1>3, <2>1, <2>2 DEF Told
  <2> QED
    BY <2>3 DEF ToldPart
<1>12. AreaPart'
  BY <1>1 DEF AreaPart, AreaOK, Doomed
<1>13. OwedPart'
  <2>1. Dooms' = Dooms /\ \A x \in Ctx : (Doomer(x)' <=> Doomer(x)) /\ (Synced(x)' <=> Synced(x))
    BY <1>1 DEF Dooms, Doomer, Synced, Changing, Doomed
  <2>2. ASSUME NEW e \in owed
        PROVE  HeldBy(disk, area, e, e.slots)
    <3>1. HeldBy(disk, area, e, e.slots \ Dooms) /\ e.slots \ Dooms \subseteq e.slots
      BY DEF OwedPart
    <3> QED
      BY <3>1, HeldMore
  <2>3. \A x \in Ctx : OwedAfter(x)' <=> OwedAfter(x)
    BY <1>1, <2>1 DEF OwedAfter, Storing, Removing, Changing
  <2>4. (\A e \in owed : HeldBy(disk, area, e, e.slots \ Dooms))'
    BY <1>1, <2>1 DEF OwedPart
  <2>5. (backup # NoHdr => \A e \in backup.owed : HeldBy(backup.hdr, backup.area, e, e.slots))'
    BY <1>1, <1>3, <2>2
  <2>6. (\A x, y \in Ctx : Doomer(x) /\ Doomer(y) => x = y)'
    BY <2>1 DEF OwedPart
  <2>7. (\A x \in Ctx : Synced(x) => OwedAfter(x))'
    BY <2>1, <2>3 DEF OwedPart
  <2> QED
    BY <2>4, <2>5, <2>6, <2>7 DEF OwedPart
<1>14. GonePart'
  BY <1>1, <1>4 DEF GonePart
<1>15. AskedPart'
  BY <1>1, <1>3 DEF AskedPart, TokenSlots
<1> QED
  BY <1>5, <1>6, <1>7, <1>8, <1>9, <1>10, <1>11, <1>12, <1>13, <1>14, <1>15

(* LUKS2_hdr_restore: no other context has a header, so that the older     *)
(* sequence id does not matter.                                            *)
LEMMA RestoreHolds ==
    ASSUME KeyslotsInv, NEW c \in Ctx, LUKS2_hdr_restore(c)
    PROVE  KeyslotsInv'
<1> USE DEF KeyslotsInv
<1>1. /\ backup # NoHdr /\ lock = NoOne /\ pc[c] = Idle
      /\ disk' = backup.hdr /\ area' = backup.area /\ owed' = backup.owed /\ asked' = backup.asked
      /\ mem' = [mem EXCEPT ![c] = backup.hdr]
      /\ UNCHANGED <<pc, lock, backup, fresh, salt, faults>>
      /\ \A x \in Ctx \ {c} : mem[x] = NoHdr
  BY DEF LUKS2_hdr_restore
<1>2. /\ backup \in Backups /\ backup.hdr \in Header /\ backup.area \in Areas
      /\ backup.owed \subseteq Promises /\ backup.asked \in [Token -> SUBSET Slot]
  BY <1>1, TypesAre
<1>3. \A x \in Ctx : pc[x] = Idle
  BY <1>1 DEF JobPart, JobOK
<1>4. \A x \in Ctx : pc'[x] = Idle /\ pc'[x].at = "idle"
  BY <1>1, <1>3 DEF Idle
<1>5. mem'[c] = backup.hdr /\ \A x \in Ctx \ {c} : mem'[x] = NoHdr
  BY <1>1 DEF TypePart
<1>6. TypePart'
  <2>1. mem' \in [Ctx -> Header \cup {NoHdr}]
    BY <1>1, <1>2 DEF TypePart
  <2>2. KeyslotsTypeOK'
    <3>1. area' \in [1..Units -> {Junk} \cup (Nat \X Pass \X Key)] /\ disk' \in Header
      BY <1>1, <1>2 DEF Areas
    <3>2. \A x \in Ctx : mem'[x] = NoHdr \/ mem'[x] \in Header
      BY <1>2, <1>5
    <3>3. asked' \in [Token -> SUBSET Slot] /\ lock' \in Ctx \cup {NoOne} /\ fresh' \subseteq Ctx
      BY <1>1, <1>2 DEF TypePart, KeyslotsTypeOK
    <3> QED
      BY <3>1, <3>2, <3>3 DEF KeyslotsTypeOK
  <2>3. (owed \subseteq Promises)' /\ (backup \in Backups \cup {NoHdr})' /\ ({salt, faults} \subseteq Nat)'
    BY <1>1, <1>2 DEF TypePart
  <2>4. pc' \in [Ctx -> Resting \cup Jobs \cup Writes]
    BY <1>1 DEF TypePart
  <2> QED
    BY <2>1, <2>2, <2>3, <2>4 DEF TypePart
<1>7. JobPart'
  BY <1>4 DEF JobPart, JobOK, Storing, Removing
<1>8. backup.hdr.seq \in Nat /\ backup.hdr.seq > 0 /\ NoHdr.seq = 0
  BY <1>1, <1>2, FieldsAre, NoHdrIs DEF SeqPart
<1>9. SeqPart'
  <2>1. \A x \in Ctx : mem'[x].seq <= disk'.seq
    BY <1>1, <1>5, <1>8
  <2>2. \A x \in Ctx : lock' # x
    BY <1>1, Constants
  <2> QED
    BY <1>1, <1>4, <1>8, <2>1, <2>2 DEF SeqPart
<1>10. \A x \in Ctx \ {c} : ~Synced(x)'
  BY <1>1, <1>5, <1>8 DEF Synced
<1>11. ValidPart'
  BY <1>1, <1>5 DEF ValidPart
<1>12. MemPart'
  <2>1. MemOK(c)'
    BY <1>1, <1>4, <1>5 DEF MemOK, Storing
  <2> QED
    BY <1>10, <2>1 DEF MemPart
<1>13. SaltPart'
  BY <1>1, <1>5 DEF SaltPart
<1>14. ToldPart'
  <2>1. PICK K \in Tables : Told(K)
    BY DEF ToldPart
  <2>2. \A x \in Ctx : ~Keeping(x)'
    BY <1>4 DEF Keeping, Storing, Removing
  <2>3. Told(K)'
    BY <1>1, <1>5, <2>1, <2>2 DEF Told
  <2> QED
    BY <2>3 DEF ToldPart
<1>15. AreaPart'
  BY <1>4 DEF AreaPart, AreaOK
<1>16. OwedPart'
  <2>1. \A x \in Ctx : ~Doomer(x)' /\ OwedAfter(x)'
    BY <1>4 DEF Doomer, OwedAfter, Storing, Removing
  <2>2. Dooms' = {}
    BY <2>1 DEF Dooms
  <2>3. ASSUME NEW e \in owed'
        PROVE  HeldBy(disk', area', e, e.slots \ Dooms')
    <3>1. HeldBy(disk', area', e, e.slots) /\ e.slots \subseteq e.slots \ Dooms'
      BY <1>1, <2>2 DEF OwedPart
    <3> QED
      BY <3>1, HeldMore
  <2>4. (backup # NoHdr => \A e \in backup.owed : HeldBy(backup.hdr, backup.area, e, e.slots))'
    BY <1>1 DEF OwedPart
  <2> QED
    BY <2>1, <2>3, <2>4 DEF OwedPart
<1>17. GonePart'
  BY <1>1 DEF GonePart
<1>18. AskedPart'
  BY <1>1 DEF AskedPart, TokenSlots
<1> QED
  BY <1>6, <1>7, <1>9, <1>11, <1>12, <1>13, <1>14, <1>15, <1>16, <1>17, <1>18

-----------------------------------------------------------------------------
(* Steps that write or wipe a binary area                                  *)

(* The keyslot of the device whose area is touched.                        *)
Hit(c) == IF pc[c].at = "destroy" /\ Changing(c) THEN Doomed(c) ELSE Target(c)

(* The keyslot with the number that is destroyed has, after a swap, the    *)
(* area of the old keyslot.                                                *)
LEMMA ExchangedIs ==
    ASSUME TypePart, NEW c \in Ctx, pc[c].at \in {"destroy", "destroyed"}, JobOK(c)
    PROVE  LET j == pc[c]  g == Exchanged(disk, j) IN
           /\ j \in Jobs /\ j.slot \in Slot /\ j.old \in Slot /\ j.swap \in BOOLEAN
           /\ g \in Header /\ g.seq = disk.seq /\ g.dg = disk.dg /\ g.tk = disk.tk
           /\ g.ks[j.old] = disk.ks[Doomed(c)] /\ Doomed(c) \in {j.old, j.slot}
           /\ j.swap => g.ks[j.slot] = disk.ks[j.old] /\ Doomed(c) = j.slot /\ j.slot # j.old
           /\ ~j.swap => g = disk /\ Doomed(c) = j.old
           /\ \A i \in Slot \ {j.old, j.slot} : g.ks[i] = disk.ks[i]
<1> DEFINE j == pc[c]
           g == Exchanged(disk, j)
<1>1. j \in Jobs
  BY JobTypes
<1>2. j.slot \in Slot /\ j.swap \in BOOLEAN /\ j.old \in Slot
  BY <1>1, Constants DEF Jobs, JobOK, Removing
<1>3. j.slot = j.old => ~j.swap
  BY DEF JobOK, Removing, Changing
<1>4. disk \in Header
  BY TypesAre
<1>5. CASE j.swap
  <2>1. g = LUKS2_keyslot_swap(disk, j.slot, j.old) /\ Doomed(c) = j.slot
    BY <1>5 DEF Exchanged, Doomed
  <2>2. /\ g \in Header /\ g.seq = disk.seq /\ g.dg = disk.dg /\ g.tk = disk.tk
        /\ g.ks[j.slot] = disk.ks[j.old] /\ g.ks[j.old] = disk.ks[j.slot]
        /\ \A i \in Slot \ {j.slot, j.old} : g.ks[i] = disk.ks[i]
    <3> DEFINE s == LUKS2_keyslot_swap(disk, j.slot, j.old)
    <3>1. /\ s \in Header /\ s.seq = disk.seq /\ s.dg = disk.dg /\ s.tk = disk.tk
          /\ s.ks[j.slot] = disk.ks[j.old] /\ s.ks[j.old] = disk.ks[j.slot]
          /\ \A i \in Slot \ {j.slot, j.old} : s.ks[i] = disk.ks[i]
      <4> HIDE DEF j
      <4> QED
        BY <1>2, <1>4, SwapIs
    <3> HIDE DEF s, g, j
    <3>2. g = s
      BY <2>1 DEF s
    <3> QED
      BY <3>1, <3>2
  <2> HIDE DEF g
  <2>3. \A i \in Slot \ {j.old, j.slot} : g.ks[i] = disk.ks[i]
    BY <2>2
  <2> QED
    BY <1>1, <1>2, <1>3, <1>5, <2>1, <2>2, <2>3 DEF g
<1>6. CASE ~j.swap
  <2>1. g = disk /\ Doomed(c) = j.old
    BY <1>6 DEF Exchanged, Doomed
  <2> QED
    BY <1>1, <1>2, <1>4, <1>6, <2>1
<1> QED
  BY <1>5, <1>6

(* The area that a context with the lock touches is the one of the keyslot *)
(* Hit(c) of the device, or of no keyslot there: the sequence id is the    *)
(* one of the device, and the keyslots of a valid header do not overlap.   *)
LEMMA TargetIs ==
    ASSUME KeyslotsInv, NEW c \in Ctx, pc[c].at \in {"store", "wipe", "destroy"}, Locked(c)
    PROVE  /\ Synced(c) /\ MemOK(c) /\ OwedAfter(c) /\ mem[c] \in Header
           /\ pc[c] \in Jobs /\ Target(c) \in Slot /\ Hit(c) \in Slot
           /\ mem[c].ks[Target(c)] \in KeyslotRecords
           /\ \A k \in SlotsOf(disk) \ {Hit(c)} : Span(disk.ks[k]) \cap Span(mem[c].ks[Target(c)]) = {}
           /\ disk.ks[Hit(c)] # None => Span(disk.ks[Hit(c)]) = Span(mem[c].ks[Target(c)])
           /\ pc[c].at # "store" => disk.ks[Hit(c)] # None
<1> USE DEF KeyslotsInv
<1> DEFINE j == pc[c]
           h == mem[c]
<1>1. Synced(c) /\ MemOK(c) /\ OwedAfter(c)
  <2>1. Synced(c)
    BY DEF Locked, Synced
  <2> QED
    BY <2>1 DEF MemPart, OwedPart
<1>2. JobOK(c) /\ j \in Jobs
  BY JobTypes DEF JobPart
<1>3. h # NoHdr
  BY <1>2 DEF JobOK, Idle
<1>4. h \in Header /\ LUKS2_hdr_validate(h) /\ disk \in Header /\ LUKS2_hdr_validate(disk)
  BY <1>3, TypesAre DEF ValidPart
<1>5. \A g \in Header : LUKS2_hdr_validate(g) =>
         \A k, i \in SlotsOf(g) : k # i => Span(g.ks[k]) \cap Span(g.ks[i]) = {}
  BY DEF LUKS2_hdr_validate, hdr_validate_areas
<1>6. CASE j.at = "store"
  <2>1. Target(c) = j.slot /\ Hit(c) = j.slot /\ j.slot \in Slot
    BY <1>2, <1>6 DEF Target, Hit, Jobs
  <2>2. h.ks[j.slot] # None /\ j.slot \in SlotsOf(h) /\ h.ks[j.slot] \in KeyslotRecords
    <3>1. h.ks[j.slot] # None
      BY <1>2, <1>6 DEF JobOK, Storing
    <3> QED
      BY <1>4, <2>1, <3>1, FieldsAre DEF SlotsOf
  <2>3. Stores(c)
    BY <1>1, <1>6 DEF MemOK, Storing
  <2>4. ASSUME NEW k \in SlotsOf(disk) \ {j.slot}
        PROVE  Span(disk.ks[k]) \cap Span(h.ks[j.slot]) = {}
    <3>1. h.ks[k] = disk.ks[k] /\ k \in SlotsOf(h)
      BY <2>3 DEF Stores, SlotsOf
    <3>2. Span(h.ks[k]) \cap Span(h.ks[j.slot]) = {}
      BY <1>4, <1>5, <2>2, <3>1
    <3> QED
      BY <3>1, <3>2
  <2>5. disk.ks[j.slot] # None => Span(disk.ks[j.slot]) = Span(h.ks[j.slot])
    BY <2>3 DEF Stores, SameArea, Span
  <2> QED
    BY <1>1, <1>2, <1>4, <1>6, <2>1, <2>2, <2>4, <2>5
<1>7. CASE j.at = "wipe"
  <2>1. Target(c) = j.slot /\ Hit(c) = j.slot /\ j.slot \in Slot /\ h = disk
    BY <1>1, <1>2, <1>7 DEF Target, Hit, Jobs, MemOK
  <2>2. h.ks[j.slot] # None /\ j.slot \in SlotsOf(disk) /\ h.ks[j.slot] \in KeyslotRecords
    <3>1. h.ks[j.slot] # None
      BY <1>2, <1>7 DEF JobOK
    <3> QED
      BY <1>4, <2>1, <3>1, FieldsAre DEF SlotsOf
  <2> QED
    BY <1>1, <1>2, <1>4, <1>5, <2>1, <2>2
<1>8. CASE j.at = "destroy"
  <2>1. h = Exchanged(disk, j)
    BY <1>1, <1>8 DEF MemOK
  <2>2. /\ j.slot \in Slot /\ j.old \in Slot
        /\ h.ks[j.old] = disk.ks[Doomed(c)] /\ Doomed(c) \in {j.old, j.slot}
        /\ ~j.swap => Doomed(c) = j.old
    BY <1>2, <1>8, <2>1, ExchangedIs
  <2>3. Target(c) = j.old /\ Hit(c) = Doomed(c)
    <3>1. ~Changing(c) => ~j.swap
      BY <1>2, <1>8 DEF JobOK, Removing
    <3> QED
      BY <1>8, <2>2, <3>1 DEF Target, Hit
  <2>4. h.ks[j.old] # None
    BY <1>2, <1>8 DEF JobOK
  <2>5. Doomed(c) \in SlotsOf(disk) /\ disk.ks[Doomed(c)] \in KeyslotRecords
    BY <1>4, <2>2, <2>4, FieldsAre DEF SlotsOf
  <2>6. \A k \in SlotsOf(disk) \ {Doomed(c)} : Span(disk.ks[k]) \cap Span(disk.ks[Doomed(c)]) = {}
    BY <1>4, <1>5, <2>5
  <2> QED
    BY <1>1, <1>2, <1>4, <2>2, <2>3, <2>4, <2>5, <2>6
<1> QED
  BY <1>6, <1>7, <1>8

(* The spans of a valid header are units of the area.                      *)
LEMMA SpansFit ==
    ASSUME NEW h \in Header, LUKS2_hdr_validate(h), NEW k \in SlotsOf(h)
    PROVE  Span(h.ks[k]) \subseteq 1..Units /\ Span(h.ks[k]) # {}
<1>1. h.ks[k] \in KeyslotRecords
  BY FieldsAre
<1>2. h.ks[k].off \in Nat /\ h.ks[k].len \in Nat /\ Units \in Nat
  BY <1>1, Constants DEF KeyslotRecords
<1>3. h.ks[k].off >= 1 /\ h.ks[k].off + h.ks[k].len <= Units + 1
  BY DEF LUKS2_hdr_validate, hdr_validate_areas
<1> QED
  BY <1>1, <1>2, <1>3, SpanIs DEF Span

(* What is held by another keyslot than the one that is touched stays so.  *)
LEMMA HeldStays ==
    ASSUME KeyslotsInv, NEW c \in Ctx, pc[c].at \in {"store", "wipe", "destroy"}, Locked(c),
           NEW content, area' = Written(mem[c].ks[Target(c)], content),
           NEW e, NEW S, S \subseteq Slot, HeldBy(disk, area, e, S),
           Hit(c) \notin S \/ disk.ks[Hit(c)] = None
    PROVE  HeldBy(disk, area', e, S)
<1>1. PICK k \in S : Carries(disk.ks[k], area, e)
  BY DEF HeldBy
<1>2. k # Hit(c) /\ k \in SlotsOf(disk)
  BY <1>1 DEF Carries, SlotsOf
<1>3. Span(disk.ks[k]) \cap Span(mem[c].ks[Target(c)]) = {}
  BY <1>2, TargetIs
<1>4. Span(disk.ks[k]) \subseteq 1..Units
  BY <1>2, SpansFit, TypesAre DEF KeyslotsInv, ValidPart
<1>5. \A u \in Span(disk.ks[k]) : area'[u] = area[u]
  BY <1>3, <1>4 DEF Written
<1> QED
  BY <1>1, <1>5 DEF HeldBy, Carries

(* What opens a keyslot is in it.                                          *)
LEMMA HoldsHeld ==
    ASSUME NEW e, NEW S, Holds(e, S)
    PROVE  HeldBy(disk, area, e, S)
  BY DEF Holds, HeldBy, Carries, LUKS2_open_and_verify

(* Hit for each kind of call.                                              *)
LEMMA HitIs ==
    ASSUME KeyslotsInv, NEW c \in Ctx, pc[c].at \in {"store", "wipe", "destroy"}, Locked(c)
    PROVE  /\ Doomer(c) <=> pc[c].at = "destroy" /\ Changing(c)
           /\ Doomer(c) => Hit(c) = Doomed(c) /\ Hit(c) \in Dooms /\ Hit(c) \in {pc[c].old, pc[c].slot}
           /\ ~Doomer(c) => Hit(c) = Target(c)
           /\ pc[c].at = "store" => Hit(c) = pc[c].slot
<1>1. Synced(c)
  BY TargetIs
<1>2. Doomer(c) <=> pc[c].at = "destroy" /\ Changing(c)
  BY <1>1 DEF Doomer
<1>3. Doomer(c) => Hit(c) = Doomed(c) /\ Hit(c) \in Dooms /\ Hit(c) \in {pc[c].old, pc[c].slot}
  BY <1>2 DEF Hit, Dooms, Doomed
<1>4. ~Doomer(c) => Hit(c) = Target(c)
  BY <1>2 DEF Hit
<1> QED
  BY <1>2, <1>3, <1>4 DEF Hit, Target

(* What is promised after an area was touched was promised before, and is  *)
(* kept by another keyslot; or the keyslot was doomed before.              *)
LEMMA KeptOwed ==
    ASSUME KeyslotsInv, NEW c \in Ctx, pc[c].at \in {"store", "wipe", "destroy"}, Locked(c),
           NEW e \in StillOwed(c)
    PROVE  /\ e \in owed
           /\ \/ Doomer(c) \/ disk.ks[Hit(c)] = None \/ Hit(c) \notin e.slots
              \/ /\ \A x \in Ctx \ {c} : pc[x] = Idle
                 /\ ~Doomer(c) /\ HeldBy(disk, area, e, e.slots \ {Hit(c)})
                 /\ pc[c].at = "store" => \/ Changes(c, e)
                                          \/ HeldBy(disk, area, e, e.slots \ {Hit(c), pc[c].old})
<1>1. Doomer(c) <=> pc[c].at = "destroy" /\ pc[c].slot # pc[c].old
  BY HitIs DEF Changing
<1>2. e \in owed
  BY DEF StillOwed
<1>3. CASE ~Doomer(c) /\ disk.ks[Hit(c)] # None
  <2>1. Hit(c) = Target(c)
    BY <1>3, HitIs
  <2> DEFINE X == IF Changes(c, e) THEN {Target(c)} ELSE {Target(c), pc[c].old}
  <2>2. \/ Target(c) \notin e.slots
        \/ Holds(e, e.slots \ X) /\ \A x \in Ctx \ {c} : pc[x] = Idle
    <3>1. StillOwed(c) = {f \in owed : \/ Target(c) \notin f.slots
                       \/ /\ Holds(f, f.slots \ (IF Changes(c, f) THEN {Target(c)}
                                                  ELSE {Target(c), pc[c].old}))
                          /\ \A x \in Ctx \ {c} : pc[x] = Idle}
      BY <1>1, <1>3, <2>1 DEF StillOwed
    <3> QED
      BY <3>1
  <2>3. CASE Holds(e, e.slots \ X) /\ \A x \in Ctx \ {c} : pc[x] = Idle
    <3>1. HeldBy(disk, area, e, e.slots \ X)
      BY <2>3, HoldsHeld
    <3>2. e.slots \ X \subseteq e.slots \ {Hit(c)}
      BY <2>1
    <3>3. HeldBy(disk, area, e, e.slots \ {Hit(c)})
      BY <3>1, <3>2, HeldMore
    <3>4. ~Changes(c, e) => HeldBy(disk, area, e, e.slots \ {Hit(c), pc[c].old})
      BY <2>1, <3>1
    <3> QED
      BY <1>2, <1>3, <2>3, <3>3, <3>4
  <2> QED
    BY <1>2, <2>1, <2>2, <2>3
<1> QED
  BY <1>2, <1>3

(* So every promise that is left is kept.                                  *)
LEMMA AreaOwed ==
    ASSUME KeyslotsInv, NEW c \in Ctx, NEW m, NEW j, Steps(c, m, j), disk' = disk, ~Doomer(c)',
           pc[c].at \in {"store", "wipe", "destroy"}, Locked(c),
           NEW content, area' = Written(mem[c].ks[Target(c)], content), owed' = StillOwed(c)
    PROVE  /\ owed' \subseteq Promises /\ owed' \subseteq owed
           /\ \A e \in owed' : HeldBy(disk, area', e, e.slots \ Dooms')
           /\ \A x \in Ctx \ {c} : Synced(x)' => OwedAfter(x)'
           /\ pc[c].at = "store" /\ pc[c].old # AnyOne => \A e \in owed' :
                 \/ {pc[c].old, pc[c].slot} \subseteq e.slots /\ pc[c].pass \in e.passes /\ pc[c].key = e.key
                 \/ HeldBy(disk, area', e, e.slots \ (Dooms' \cup {pc[c].old}))
           /\ pc[c].at = "destroy" /\ Changing(c) => \A e \in owed' :
                 \/ {pc[c].old, pc[c].slot} \subseteq e.slots
                 \/ HeldBy(disk, area', e, e.slots \ {pc[c].old, pc[c].slot})
<1> USE DEF KeyslotsInv
<1>1. owed' \subseteq owed /\ owed \subseteq Promises
  BY KeptOwed, TypesAre
<1>2. Dooms' \subseteq Dooms
  BY DoomsShrink
<1>3. \A e \in owed : e.slots \subseteq Slot
  BY <1>1 DEF Promises
<1>4. ASSUME NEW e, NEW S, S \subseteq Slot, HeldBy(disk, area, e, S),
             Hit(c) \notin S \/ disk.ks[Hit(c)] = None
      PROVE  HeldBy(disk, area', e, S)
  BY <1>4, HeldStays
<1>5. (\A x \in Ctx \ {c} : pc[x] = Idle) /\ ~Doomer(c) => Dooms = {}
  BY DEF Dooms, Doomer, Idle
<1>6. Doomer(c) => Hit(c) \in Dooms /\ Hit(c) \in {pc[c].old, pc[c].slot}
  BY HitIs
<1>7. ASSUME NEW e \in owed'
      PROVE  HeldBy(disk, area', e, e.slots \ Dooms')
  <2>1. HeldBy(disk, area, e, e.slots \ Dooms) /\ e.slots \ Dooms \subseteq Slot
    BY <1>1, <1>3 DEF OwedPart
  <2>2. HeldBy(disk, area', e, e.slots \ Dooms) => HeldBy(disk, area', e, e.slots \ Dooms')
    BY <1>2, HeldMore
  <2>3. CASE Doomer(c) \/ disk.ks[Hit(c)] = None \/ Hit(c) \notin e.slots
    BY <1>4, <1>6, <2>1, <2>2, <2>3
  <2>4. CASE /\ \A x \in Ctx \ {c} : pc[x] = Idle
             /\ ~Doomer(c) /\ HeldBy(disk, area, e, e.slots \ {Hit(c)})
    <3>1. Dooms' = {}
      BY <1>2, <1>5, <2>4
    <3>2. HeldBy(disk, area', e, e.slots \ {Hit(c)})
      BY <1>1, <1>3, <1>4, <2>4
    <3>3. e.slots \ {Hit(c)} \subseteq e.slots \ Dooms'
      BY <3>1
    <3> QED
      BY <3>2, <3>3, HeldMore
  <2> QED
    BY <2>3, <2>4, KeptOwed
<1>8. ASSUME NEW x \in Ctx \ {c}, Synced(x)'
      PROVE  OwedAfter(x)'
  <2>1. mem'[x] = mem[x] /\ pc'[x] = pc[x]
    BY OthersAre
  <2>2. OwedAfter(x) /\ Synced(x)
    BY <1>8, <2>1 DEF OwedPart, Synced
  <2>3. Storing(x)' = Storing(x) /\ Removing(x)' = Removing(x) /\ Changing(x)' = Changing(x)
    BY <2>1 DEF Storing, Removing, Changing
  <2>4. ASSUME NEW e \in owed', Storing(x), pc[x].old # AnyOne
        PROVE  \/ {pc[x].old, pc[x].slot} \subseteq e.slots /\ pc[x].pass \in e.passes /\ pc[x].key = e.key
               \/ HeldBy(disk, area', e, e.slots \ (Dooms' \cup {pc[x].old}))
    <3> DEFINE S == e.slots \ (Dooms \cup {pc[x].old})
    <3>1. CASE HeldBy(disk, area, e, S)
      <4>1. pc[x] # Idle
        BY <2>4 DEF Storing, Idle
      <4>2. Doomer(c) \/ disk.ks[Hit(c)] = None \/ Hit(c) \notin e.slots
        BY <4>1, KeptOwed
      <4>3. S \subseteq Slot /\ (Hit(c) \notin S \/ disk.ks[Hit(c)] = None)
        BY <1>1, <1>3, <1>6, <4>2
      <4>4. HeldBy(disk, area', e, S)
        BY <1>4, <3>1, <4>3
      <4>5. S \subseteq e.slots \ (Dooms' \cup {pc[x].old})
        BY <1>2
      <4> QED
        BY <4>4, <4>5, HeldMore
    <3>2. \/ {pc[x].old, pc[x].slot} \subseteq e.slots /\ pc[x].pass \in e.passes /\ pc[x].key = e.key
          \/ HeldBy(disk, area, e, S)
      BY <1>1, <2>2, <2>4 DEF OwedAfter
    <3> QED
      BY <3>1, <3>2
  <2>5. ASSUME NEW e \in owed', Removing(x), Changing(x)
        PROVE  \/ {pc[x].old, pc[x].slot} \subseteq e.slots
               \/ HeldBy(disk, area', e, e.slots \ {pc[x].old, pc[x].slot})
    <3> DEFINE S == e.slots \ {pc[x].old, pc[x].slot}
    <3>1. CASE HeldBy(disk, area, e, S)
      <4>1. pc[x] # Idle
        BY <2>5 DEF Removing, Idle
      <4>2. pc[x].at = "destroy"
        BY <2>5, Constants DEF Removing, SeqPart, Locked
      <4>3. Doomer(x)
        BY <2>2, <2>5, <4>2 DEF Doomer
      <4>4. ~Doomer(c)
        BY <4>3 DEF OwedPart
      <4>5. disk.ks[Hit(c)] = None \/ Hit(c) \notin e.slots
        BY <4>1, <4>4, KeptOwed
      <4>6. S \subseteq Slot /\ (Hit(c) \notin S \/ disk.ks[Hit(c)] = None)
        BY <1>1, <1>3, <4>5
      <4> QED
        BY <1>4, <3>1, <4>6
    <3>2. {pc[x].old, pc[x].slot} \subseteq e.slots \/ HeldBy(disk, area, e, S)
      BY <1>1, <2>2, <2>5 DEF OwedAfter
    <3> QED
      BY <3>1, <3>2
  <2> QED
    BY <2>1, <2>3, <2>4, <2>5 DEF OwedAfter
<1>9. ASSUME pc[c].at = "store", pc[c].old # AnyOne, NEW e \in owed'
      PROVE  \/ {pc[c].old, pc[c].slot} \subseteq e.slots /\ pc[c].pass \in e.passes /\ pc[c].key = e.key
             \/ HeldBy(disk, area', e, e.slots \ (Dooms' \cup {pc[c].old}))
  <2>1. OwedAfter(c) /\ Storing(c) /\ ~Doomer(c)
    BY <1>9, TargetIs, HitIs DEF Storing
  <2> DEFINE S == e.slots \ (Dooms \cup {pc[c].old})
             T == e.slots \ {Hit(c), pc[c].old}
  <2>2. \/ {pc[c].old, pc[c].slot} \subseteq e.slots /\ pc[c].pass \in e.passes /\ pc[c].key = e.key
        \/ HeldBy(disk, area, e, S)
    BY <1>1, <1>9, <2>1 DEF OwedAfter
  <2>3. CASE disk.ks[Hit(c)] = None \/ Hit(c) \notin e.slots
    <3>1. S \subseteq Slot /\ (Hit(c) \notin S \/ disk.ks[Hit(c)] = None)
      BY <1>1, <1>3, <2>3
    <3>2. HeldBy(disk, area, e, S) => HeldBy(disk, area', e, S)
      BY <1>4, <3>1
    <3>3. S \subseteq e.slots \ (Dooms' \cup {pc[c].old})
      BY <1>2
    <3> QED
      BY <2>2, <3>2, <3>3, HeldMore
  <2>4. CASE /\ \A x \in Ctx \ {c} : pc[x] = Idle
             /\ HeldBy(disk, area, e, T)
    <3>1. Dooms' = {}
      BY <1>2, <1>5, <2>1, <2>4
    <3>2. HeldBy(disk, area', e, T)
      BY <1>1, <1>3, <1>4, <2>4
    <3>3. T \subseteq e.slots \ (Dooms' \cup {pc[c].old})
      BY <3>1
    <3> QED
      BY <3>2, <3>3, HeldMore
  <2>5. CASE Changes(c, e)
    BY <2>5 DEF Changes
  <2> QED
    BY <1>9, <2>1, <2>3, <2>4, <2>5, KeptOwed
<1>10. ASSUME pc[c].at = "destroy", Changing(c), NEW e \in owed'
       PROVE  \/ {pc[c].old, pc[c].slot} \subseteq e.slots
              \/ HeldBy(disk, area', e, e.slots \ {pc[c].old, pc[c].slot})
  <2>1. OwedAfter(c) /\ Removing(c) /\ Doomer(c)
    BY <1>10, TargetIs, HitIs DEF Removing
  <2> DEFINE S == e.slots \ {pc[c].old, pc[c].slot}
  <2>2. {pc[c].old, pc[c].slot} \subseteq e.slots \/ HeldBy(disk, area, e, S)
    BY <1>1, <1>10, <2>1 DEF OwedAfter
  <2>3. S \subseteq Slot /\ Hit(c) \notin S
    BY <1>1, <1>3, <1>6, <2>1
  <2> QED
    BY <1>4, <2>2, <2>3
<1> QED
  BY <1>1, <1>7, <1>8, <1>9, <1>10

(* The types and salts of what is written.                                 *)
LEMMA AreaWritten ==
    ASSUME KeyslotsInv, NEW s \in KeyslotRecords, NEW K \in Tables, Told(K),
           NEW content, area' = Written(s, content),
           \/ content = Junk
           \/ \E n \in Nat, p \in Pass, v \in Key :
                 content = <<n, p, v>> /\ n > 0 /\ n <= salt /\ K[n] = <<p, v>>
    PROVE  /\ area' \in Areas /\ AreaSalted(area', salt) /\ AreaTold(area', K)
           /\ \A u \in 1..Units : area'[u] = IF u \in Span(s) THEN content ELSE area[u]
<1>1. \A u \in 1..Units : area'[u] = IF u \in Span(s) THEN content ELSE area[u]
  BY DEF Written
<1>2. area \in Areas /\ AreaSalted(area, salt) /\ AreaTold(area, K)
  BY TypesAre DEF KeyslotsInv, SaltPart, Told
<1>3. CASE content = Junk
  <2>1. area' \in Areas
    BY <1>2, <1>3 DEF Areas, Written
  <2>2. \A u \in 1..Units : area'[u] # Junk => area'[u] = area[u]
    BY <1>1, <1>3
  <2>3. AreaSalted(area', salt)
    BY <1>2, <2>2 DEF AreaSalted
  <2>4. AreaTold(area', K)
    BY <1>2, <2>2 DEF AreaTold
  <2> QED
    BY <1>1, <2>1, <2>3, <2>4
<1>4. CASE \E n \in Nat, p \in Pass, v \in Key :
              content = <<n, p, v>> /\ n > 0 /\ n <= salt /\ K[n] = <<p, v>>
  <2>1. PICK n \in Nat, p \in Pass, v \in Key :
              content = <<n, p, v>> /\ n > 0 /\ n <= salt /\ K[n] = <<p, v>>
    BY <1>4
  <2>2. content \in Nat \X Pass \X Key /\ content[1] = n /\ content[2] = p /\ content[3] = v
    BY <2>1
  <2>3. area' \in Areas
    BY <1>2, <2>2 DEF Areas, Written
  <2>4. \A u \in 1..Units : area'[u] = content \/ area'[u] = area[u]
    BY <1>1
  <2>5. AreaSalted(area', salt)
    BY <1>2, <2>1, <2>2, <2>4 DEF AreaSalted
  <2>6. AreaTold(area', K)
    BY <1>2, <2>1, <2>2, <2>4 DEF AreaTold
  <2> QED
    BY <1>1, <2>3, <2>5, <2>6
<1> QED
  BY <1>3, <1>4

(* Nobody holds the lock: all key material is in the area of a keyslot.    *)
LEMMA GoneBefore ==
    ASSUME KeyslotsInv, lock = NoOne, faults = 0, backup = NoHdr, NEW u \in 1..Units, area[u] # Junk
    PROVE  \E k \in SlotsOf(disk) : u \in Span(disk.ks[k]) /\ disk.ks[k].salt = area[u][1]
<1>1. \A x \in Ctx : pc[x].at # "commit"
  BY Constants DEF KeyslotsInv, SeqPart
<1> QED
  BY <1>1 DEF KeyslotsInv, GonePart

(* A wiped area adds no key material.                                      *)
LEMMA GoneAfter ==
    ASSUME KeyslotsInv, lock = NoOne, NEW s \in KeyslotRecords, area' = Written(s, Junk),
           UNCHANGED <<disk, backup, faults>>
    PROVE  GonePart'
<1>1. \A u \in 1..Units : area'[u] # Junk => area'[u] = area[u]
  BY DEF Written
<1>2. \A u \in 1..Units : faults' = 0 /\ backup' = NoHdr /\ area'[u] # Junk =>
          \E k \in SlotsOf(disk') : u \in Span(disk'.ks[k]) /\ disk'.ks[k].salt = area'[u][1]
  BY <1>1, GoneBefore
<1> QED
  BY <1>2 DEF GonePart, SlotsOf

(* The area is wiped, or torn, and the call is over.                       *)
LEMMA AreaRest ==
    ASSUME KeyslotsInv, NEW c \in Ctx, NEW m \in Header \cup {NoHdr}, NEW j \in Resting, Torn(c),
           mem' = [mem EXCEPT ![c] = m], pc' = [pc EXCEPT ![c] = j],
           UNCHANGED <<disk, backup, asked, salt>>, lock' = NoOne,
           faults' \in Nat, faults <= faults', fresh' \subseteq Ctx, faults' > 0 \/ faults' = faults,
           m = NoHdr => j = Idle, j = Idle => m.seq <= disk.seq,
           j = Idle /\ m.seq = disk.seq => m = disk,
           m # NoHdr => LUKS2_hdr_validate(m) /\ HdrSalted(m, salt),
           \A K \in Tables : Told(K) /\ m # NoHdr => HdrTold(m, K)
    PROVE  KeyslotsInv'
<1> USE DEF KeyslotsInv
<1>1. mem'[c] = m /\ pc'[c] = j
  BY DEF TypePart
<1>2. /\ JobOK(c)' /\ ~Keeping(c)' /\ ~Doomer(c)' /\ OwedAfter(c)' /\ AreaOK(c)'
      /\ j.at \in {"idle", "reload"} /\ (j.at = "reload" <=> j # Idle)
      /\ Synced(c)' => MemOK(c)'
  BY <1>1, RestIs
<1>3. /\ pc[c].at \in {"store", "wipe", "destroy"} /\ Locked(c) /\ lock = NoOne /\ c # NoOne
      /\ area' = Written(mem[c].ks[Target(c)], Junk) /\ owed' = StillOwed(c)
  BY Constants DEF Torn, Locked
<1>4. Steps(c, m, j)
  <2>1. lock' = lock /\ lock' # c /\ j.at \notin {"commit", "destroyed"}
    BY <1>2, <1>3
  <2>2. salt' \in Nat /\ salt <= salt'
    BY TypesAre
  <2>3. j.at # "reload" => m.seq <= disk'.seq
    BY <1>2
  <2> QED
    BY <1>2, <2>1, <2>2, <2>3 DEF Steps
<1>5. PICK K \in Tables : Told(K)
  BY DEF ToldPart
<1>6. mem[c].ks[Target(c)] \in KeyslotRecords
  BY <1>3, TargetIs
<1>7. area' \in Areas /\ AreaSalted(area', salt) /\ AreaTold(area', K)
  BY <1>3, <1>5, <1>6, AreaWritten
<1>8. GonePart'
  <2>1. CASE faults' > 0
    BY <2>1 DEF GonePart
  <2>2. CASE faults' = faults
    BY <1>3, <1>6, <2>2, GoneAfter
  <2> QED
    BY <2>1, <2>2
<1>9. /\ owed' \subseteq Promises
      /\ \A e \in owed' : HeldBy(disk, area', e, e.slots \ Dooms')
      /\ \A x \in Ctx \ {c} : Synced(x)' => OwedAfter(x)'
  BY <1>2, <1>3, <1>4, AreaOwed
<1>10. /\ UNCHANGED <<disk, backup, asked>> /\ AreaSalted(area', salt')
       /\ \A x \in Ctx : Synced(x)' => OwedAfter(x)'
       /\ (m # NoHdr => HdrTold(m, K)) /\ lock \in {c, NoOne}
  BY <1>2, <1>3, <1>5, <1>7, <1>9
<1> QED
  BY <1>2, <1>4, <1>5, <1>7, <1>8, <1>9, <1>10, SameDisk

(* A write or a wipe of an area fails.                                     *)
LEMMA AreaErrorHolds ==
    ASSUME KeyslotsInv, NEW c \in Ctx, AreaError(c)
    PROVE  KeyslotsInv'
<1> USE DEF KeyslotsInv
<1>1. /\ Torn(c) /\ pc[c].at \in {"store", "wipe", "destroy"} /\ Locked(c) /\ lock = NoOne
      /\ UNCHANGED <<disk, mem, backup, asked, salt, fresh>> /\ lock' = NoOne
      /\ faults' = faults + 1
  BY DEF AreaError, Torn, Fault, Locked
<1>2. /\ Synced(c) /\ MemOK(c) /\ mem[c] \in Header /\ pc[c] \in Jobs
  BY <1>1, TargetIs
<1>3. faults' \in Nat /\ faults <= faults' /\ faults' > 0 /\ fresh' \subseteq Ctx /\ mem[c] # NoHdr
  BY <1>1, <1>2, TypesAre, NoHdrIs DEF TypePart, KeyslotsTypeOK
<1>4. /\ LUKS2_hdr_validate(mem[c]) /\ HdrSalted(mem[c], salt)
      /\ \A K \in Tables : Told(K) => HdrTold(mem[c], K)
  BY <1>3, MemGood
<1>5. PICK j \in Resting : pc' = [pc EXCEPT ![c] = j] /\ (j = Idle => pc[c].slot = pc[c].old)
  <2>1. \/ pc' = [pc EXCEPT ![c] = Idle] /\ pc[c].slot = pc[c].old
        \/ pc' = [pc EXCEPT ![c] = [at |-> "reload"]]
    BY <1>1 DEF AreaError, Error, Return, Fail
  <2> QED
    BY <2>1 DEF Resting, Idle
<1>6. j = Idle => mem[c] = disk
  <2>1. SUFFICES ASSUME pc[c].slot = pc[c].old PROVE mem[c] = disk
    BY <1>5
  <2>2. JobOK(c)
    BY DEF JobPart
  <2>3. pc[c].at = "destroy"
    BY <1>1, <2>1, <2>2 DEF JobOK
  <2>4. ~pc[c].swap
    BY <2>1, <2>2, <2>3 DEF JobOK, Removing, Changing
  <2> QED
    BY <1>2, <2>3, <2>4 DEF MemOK, Exchanged
<1>7. mem' = [mem EXCEPT ![c] = mem[c]] /\ mem[c] \in Header \cup {NoHdr}
  BY <1>1, <1>2 DEF TypePart
<1>8. mem[c].seq <= disk.seq
  BY <1>2, SeqsAre DEF Synced
<1>9. UNCHANGED <<disk, backup, asked, salt>>
  BY <1>1
<1> QED
  BY <1>1, <1>3, <1>4, <1>5, <1>6, <1>7, <1>8, <1>9, AreaRest

(* The process dies, in the middle of a write of an area or not.           *)
LEMMA DieHolds ==
    ASSUME KeyslotsInv, NEW c \in Ctx, Die(c)
    PROVE  KeyslotsInv'
<1> USE DEF KeyslotsInv
<1>1. /\ mem' = [mem EXCEPT ![c] = NoHdr] /\ fresh' = fresh \ {c} /\ pc' = [pc EXCEPT ![c] = Idle]
      /\ UNCHANGED <<disk, backup, asked, salt>> /\ lock' = IF lock = c THEN NoOne ELSE lock
      /\ faults' = faults + 1 /\ (Torn(c) \/ UNCHANGED <<area, owed>>)
  BY DEF Die, Fault
<1>2. faults' \in Nat /\ faults <= faults' /\ faults' > 0 /\ fresh' \subseteq Ctx
  BY <1>1, TypesAre DEF TypePart, KeyslotsTypeOK
<1>3. CASE UNCHANGED <<area, owed>>
  <2>1. UNCHANGED <<disk, backup, asked, area, owed, salt>>
    BY <1>1, <1>3
  <2> QED
    BY <1>1, <1>2, <2>1, ForgetHolds
<1>4. CASE Torn(c)
  <2>1. lock' = NoOne
    BY <1>1, <1>4 DEF Torn, Locked
  <2>2. /\ NoHdr \in Header \cup {NoHdr} /\ Idle \in Resting /\ NoHdr.seq <= disk.seq
        /\ NoHdr.seq # disk.seq
    BY NoHdrIs, SeqsAre DEF Resting, SeqPart
  <2> QED
    BY <1>1, <1>2, <1>4, <2>1, <2>2, AreaRest
<1> QED
  BY <1>1, <1>3, <1>4

(* luks2_keyslot_set_key writes the area.                                  *)
LEMMA StoreAreaHolds ==
    ASSUME KeyslotsInv, NEW c \in Ctx, StoreArea(c)
    PROVE  KeyslotsInv'
<1> USE DEF KeyslotsInv
<1> DEFINE s == mem[c].ks[pc[c].slot]
           content == <<s.salt, pc[c].pass, pc[c].key>>
           j == [pc[c] EXCEPT !.at = "commit"]
<1>1. /\ pc[c].at = "store" /\ Locked(c) /\ lock = NoOne /\ lock' = c /\ Target(c) = pc[c].slot
      /\ area' = Written(s, content) /\ owed' = StillOwed(c)
      /\ UNCHANGED <<disk, mem, backup, asked, fresh, salt, faults>>
  BY DEF StoreArea, Locked, Target, counters
<1>2. /\ Synced(c) /\ MemOK(c) /\ mem[c] \in Header /\ pc[c] \in Jobs /\ pc[c].slot \in Slot
      /\ s \in KeyslotRecords
  BY <1>1, TargetIs
<1>3. JobOK(c) /\ Storing(c) /\ Keeping(c)
  BY <1>1 DEF JobPart, Storing, Keeping
<1>4. s # None /\ s.type = "luks2" /\ s.salt \in Nat /\ s.salt > 0 /\ pc[c].pass \in Pass /\ pc[c].key \in Key
  BY <1>1, <1>2, <1>3 DEF JobOK, KeyslotRecords
<1>5. pc' = [pc EXCEPT ![c] = j]
  BY DEF StoreArea
<1>6. /\ j \in Jobs /\ j.at = "commit" /\ j.slot = pc[c].slot /\ j.old = pc[c].old /\ j.pass = pc[c].pass
      /\ j.key = pc[c].key
  BY <1>2 DEF Jobs
<1> HIDE DEF j
<1>7. mem'[c] = mem[c] /\ pc'[c] = j /\ mem' = [mem EXCEPT ![c] = mem[c]] /\ mem[c] # NoHdr
  BY <1>1, <1>2, <1>5, NoHdrIs DEF TypePart
<1>8. Storing(c)' /\ Keeping(c)' /\ ~Removing(c)' /\ ~Doomer(c)'
  BY <1>6, <1>7 DEF Storing, Keeping, Removing, Doomer
<1>9. JobOK(c)'
  BY <1>1, <1>3, <1>6, <1>7, <1>8 DEF JobOK
<1>10. MemOK(c)'
  <2>1. Stores(c)
    BY <1>2, <1>3 DEF MemOK
  <2>2. Stores(c)'
    BY <1>1, <1>6, <1>7, <2>1 DEF Stores, SlotsOf
  <2> QED
    BY <1>6, <1>7, <2>2 DEF MemOK
<1>11. /\ LUKS2_hdr_validate(mem[c]) /\ HdrSalted(mem[c], salt)
       /\ \A K \in Tables : Told(K) => HdrTold(mem[c], K)
  BY <1>7, MemGood
<1>12. Steps(c, mem[c], j)
  <2>1. lock \in {c, NoOne} /\ lock' \in {c, NoOne} /\ j.at \in {"commit", "destroyed"} /\ Synced(c)'
    BY <1>1, <1>2, <1>6, <1>7 DEF Synced
  <2>2. salt' \in Nat /\ salt <= salt' /\ faults' \in Nat /\ faults <= faults' /\ fresh' \subseteq Ctx
    BY <1>1, TypesAre DEF TypePart, KeyslotsTypeOK
  <2>3. mem[c].seq <= disk'.seq
    BY <1>1, <1>2, SeqsAre DEF Synced
  <2>4. mem[c] \in Header \cup {NoHdr} /\ j \in Resting \cup Jobs \cup Writes /\ HdrSalted(mem[c], salt')
    BY <1>1, <1>2, <1>6, <1>11
  <2> QED
    BY <1>1, <1>5, <1>7, <1>9, <1>10, <1>11, <2>1, <2>2, <2>3, <2>4 DEF Steps
<1>13. PICK K \in Tables : Told(K)
  BY DEF ToldPart
<1>14. K[s.salt] = <<pc[c].pass, pc[c].key>> /\ s.salt <= salt
  <2>1. K[s.salt] = <<pc[c].pass, pc[c].key>>
    BY <1>3, <1>13 DEF Told
  <2>2. pc[c].slot \in SlotsOf(mem[c])
    BY <1>2, <1>4 DEF SlotsOf
  <2> QED
    BY <1>11, <2>1, <2>2 DEF HdrSalted
<1> HIDE DEF s
<1>15. /\ area' \in Areas /\ AreaSalted(area', salt) /\ AreaTold(area', K)
       /\ \A u \in 1..Units : area'[u] = IF u \in Span(s) THEN content ELSE area[u]
  <2>1. \E n \in Nat, p \in Pass, v \in Key :
                 content = <<n, p, v>> /\ n > 0 /\ n <= salt /\ K[n] = <<p, v>>
    BY <1>4, <1>14
  <2> HIDE DEF content
  <2> QED
    BY <1>1, <1>2, <1>13, <2>1, AreaWritten
<1>16. Span(s) \subseteq 1..Units
  <2>1. pc[c].slot \in SlotsOf(mem[c])
    BY <1>2, <1>4 DEF SlotsOf, s
  <2> QED
    BY <1>2, <1>11, <2>1, SpansFit DEF s
<1>17. AreaOK(c)'
  <2>1. \A u \in Span(s) : area'[u] = content
    BY <1>15, <1>16
  <2> QED
    BY <1>6, <1>7, <2>1 DEF AreaOK, s
<1>18. GonePart'
  <2> SUFFICES ASSUME faults' = 0, backup' = NoHdr, NEW u \in 1..Units, area'[u] # Junk
               PROVE  \/ \E k \in SlotsOf(disk') : u \in Span(disk'.ks[k]) /\ disk'.ks[k].salt = area'[u][1]
                      \/ \E x \in Ctx : /\ pc'[x].at = "commit" /\ u \in Span(mem'[x].ks[pc'[x].slot])
                                        /\ mem'[x].ks[pc'[x].slot].salt = area'[u][1]
    BY DEF GonePart, SlotsOf
  <2>1. CASE u \in Span(s)
    <3>1. area'[u][1] = s.salt
      BY <1>15, <2>1
    <3> QED
      BY <1>6, <1>7, <2>1, <3>1 DEF s
  <2>2. CASE u \notin Span(s)
    <3>1. area'[u] = area[u]
      BY <1>15, <2>2
    <3> QED
      BY <1>1, <3>1, GoneBefore
  <2> QED
    BY <2>1, <2>2
<1>19. /\ owed' \subseteq Promises
       /\ \A e \in owed' : HeldBy(disk, area', e, e.slots \ Dooms')
       /\ \A x \in Ctx \ {c} : Synced(x)' => OwedAfter(x)'
       /\ pc[c].old # AnyOne => \A e \in owed' :
             \/ {pc[c].old, pc[c].slot} \subseteq e.slots /\ pc[c].pass \in e.passes /\ pc[c].key = e.key
             \/ HeldBy(disk, area', e, e.slots \ (Dooms' \cup {pc[c].old}))
  <2>1. area' = Written(mem[c].ks[Target(c)], content) /\ disk' = disk
    BY <1>1 DEF s
  <2> HIDE DEF content
  <2> QED
    BY <1>1, <1>8, <1>12, <2>1, AreaOwed
<1>20. OwedAfter(c)'
  BY <1>1, <1>6, <1>7, <1>8, <1>19 DEF OwedAfter
<1>21. /\ UNCHANGED <<disk, backup, asked>> /\ AreaSalted(area', salt')
       /\ \A x \in Ctx : Synced(x)' => OwedAfter(x)'
       /\ HdrTold(mem[c], K) /\ lock \in {c, NoOne}
       /\ K[mem[c].ks[j.slot].salt] = <<j.pass, j.key>>
  BY <1>1, <1>6, <1>11, <1>13, <1>14, <1>15, <1>19, <1>20 DEF s
<1> QED
  BY <1>8, <1>12, <1>13, <1>15, <1>17, <1>18, <1>19, <1>21, SameDisk

(* A valid header without one of its keyslots is valid.                    *)
LEMMA WipedValid ==
    ASSUME NEW h \in Header, LUKS2_hdr_validate(h), NEW k \in Slot
    PROVE  /\ LUKS2_hdr_validate(Wiped(h, k))
           /\ \A K : HdrTold(h, K) => HdrTold(Wiped(h, k), K)
           /\ \A n : HdrSalted(h, n) => HdrSalted(Wiped(h, k), n)
           /\ SlotsOf(Wiped(h, k)) = SlotsOf(h) \ {k}
           /\ \A i \in Slot \ {k} : DigestSet(Wiped(h, k), i) = DigestSet(h, i)
<1> DEFINE g == Wiped(h, k)
<1>1. /\ g \in Header /\ g.seq = h.seq
      /\ g.ks[k] = None /\ \A j \in Slot \ {k} : g.ks[j] = h.ks[j]
      /\ \A d \in Digest : h.dg[d] = None => g.dg[d] = None
      /\ \A d \in Digest : h.dg[d] # None =>
            /\ g.dg[d] # None /\ g.dg[d].keyslots = h.dg[d].keyslots \ {k}
            /\ g.dg[d].key = h.dg[d].key /\ g.dg[d].segment = h.dg[d].segment
      /\ \A t \in Token : h.tk[t] = None => g.tk[t] = None
      /\ \A t \in Token : h.tk[t] # None =>
            g.tk[t] # None /\ g.tk[t].keyslots = h.tk[t].keyslots \ {k}
  BY WipedIs
<1> HIDE DEF g
<1>2. SlotsOf(g) = SlotsOf(h) \ {k}
  BY <1>1 DEF SlotsOf
<1>3. TokensOf(g) = TokensOf(h) /\ DigestsOf(g) = DigestsOf(h)
  BY <1>1 DEF TokensOf, DigestsOf
<1>4. \A d \in DigestsOf(h) : d \in Digest /\ h.dg[d] # None
  BY DEF DigestsOf
<1>5. \A i \in Slot \ {k} : DigestSet(g, i) = DigestSet(h, i)
  <2> SUFFICES ASSUME NEW i \in Slot \ {k}, NEW d \in DigestsOf(h)
               PROVE  i \in g.dg[d].keyslots <=> i \in h.dg[d].keyslots
    BY <1>3 DEF DigestSet
  <2> QED
    BY <1>1, <1>4
<1>6. LUKS2_hdr_validate(g)
  <2>1. JsonSize(g) <= JsonMax
    <3>1. JsonSize(h) <= JsonMax
      BY DEF LUKS2_hdr_validate
    <3>2. SlotsOf(g) \subseteq SlotsOf(h) /\ DigestsOf(g) \subseteq DigestsOf(h) /\ TokensOf(g) \subseteq TokensOf(h)
      BY <1>2, <1>3
    <3> QED
      BY <3>1, <3>2, SizeShrinks
  <2>2. \A t \in TokensOf(g) : g.tk[t].keyslots \subseteq SlotsOf(g)
    <3>1. \A t \in TokensOf(h) : t \in Token /\ h.tk[t] # None /\ h.tk[t].keyslots \subseteq SlotsOf(h)
      BY DEF LUKS2_hdr_validate, TokensOf
    <3> QED
      BY <1>1, <1>2, <1>3, <3>1
  <2>3. \A d \in DigestsOf(g) : g.dg[d].keyslots \subseteq SlotsOf(g)
    <3>1. \A d \in DigestsOf(h) : h.dg[d].keyslots \subseteq SlotsOf(h)
      BY DEF LUKS2_hdr_validate
    <3> QED
      BY <1>1, <1>2, <1>3, <1>4, <3>1
  <2>4. \E d \in DigestsOf(g) : g.dg[d].segment
    <3>1. PICK d \in DigestsOf(h) : h.dg[d].segment
      BY DEF LUKS2_hdr_validate
    <3> QED
      BY <1>1, <1>3, <1>4, <3>1
  <2>5. \A i \in SlotsOf(g) : i \in SlotsOf(h) /\ i \in Slot \ {k} /\ g.ks[i] = h.ks[i]
    BY <1>1, <1>2 DEF SlotsOf
  <2>6. \A i \in SlotsOf(g) : SameArea(g.ks[i], h.ks[i]) /\ g.ks[i].type = h.ks[i].type
    BY <2>5 DEF SameArea
  <2>7. \A i \in SlotsOf(g) : g.ks[i].type = "luks2" => DigestSet(g, i) = DigestSet(h, i)
    BY <1>5, <2>5
  <2>8. SlotsOf(g) \subseteq SlotsOf(h)
    BY <2>5
  <2> QED
    BY <1>1, <2>1, <2>2, <2>3, <2>4, <2>6, <2>7, <2>8, ValidFrom
<1>7. ASSUME NEW K, HdrTold(h, K)
      PROVE  HdrTold(g, K)
  <2>1. \A i \in SlotsOf(g) : i \in SlotsOf(h) /\ SameSlot(g.ks[i], h.ks[i])
    BY <1>1, <1>2 DEF SlotsOf, SameSlot, SameArea
  <2>2. \A i \in SlotsOf(g) : DigestsFrom(g, h, i)
    BY <1>1, <1>2, <1>4, <1>5 DEF DigestsFrom, DigestSet, SlotsOf
  <2> QED
    BY <1>7, <2>1, <2>2, ToldFrom
<1>8. \A n : HdrSalted(h, n) => HdrSalted(g, n)
  BY <1>1, <1>2 DEF HdrSalted, SlotsOf
<1> QED
  BY <1>2, <1>5, <1>6, <1>7, <1>8 DEF g

(* LUKS2_keyslot_wipe wipes the area and drops the keyslot in memory.      *)
LEMMA DestroyAreaHolds ==
    ASSUME KeyslotsInv, NEW c \in Ctx, DestroyArea(c)
    PROVE  KeyslotsInv'
<1> USE DEF KeyslotsInv
<1> DEFINE m == Wiped(mem[c], pc[c].old)
           s == mem[c].ks[pc[c].old]
           j == [pc[c] EXCEPT !.at = "destroyed"]
<1>1. /\ pc[c].at = "destroy" /\ Locked(c) /\ lock = NoOne /\ lock' = c /\ Target(c) = pc[c].old
      /\ area' = Written(s, Junk) /\ owed' = StillOwed(c)
      /\ UNCHANGED <<disk, backup, asked, fresh, salt, faults>>
  BY DEF DestroyArea, Locked, Target, counters
<1>2. /\ Synced(c) /\ MemOK(c) /\ mem[c] \in Header /\ pc[c] \in Jobs /\ pc[c].old \in Slot
      /\ s \in KeyslotRecords
  BY <1>1, TargetIs
<1>3. JobOK(c) /\ Removing(c)
  BY <1>1 DEF JobPart, Removing
<1>4. pc' = [pc EXCEPT ![c] = j] /\ mem' = [mem EXCEPT ![c] = m]
  BY DEF DestroyArea, Wiped
<1>5. /\ j \in Jobs /\ j.at = "destroyed" /\ j.slot = pc[c].slot /\ j.old = pc[c].old /\ j.pass = pc[c].pass
      /\ j.key = pc[c].key /\ j.slot \in Slot
  BY <1>2 DEF Jobs
<1>6. j.swap = pc[c].swap
  BY <1>2 DEF Jobs
<1> HIDE DEF j
<1>7. /\ m \in Header /\ m.seq = mem[c].seq /\ \A i \in Slot \ {pc[c].old} : m.ks[i] = mem[c].ks[i]
  BY <1>2, WipedIs
<1>8. mem[c] # NoHdr /\ m # NoHdr
  BY <1>2, <1>7, NoHdrIs
<1>9. /\ LUKS2_hdr_validate(mem[c]) /\ HdrSalted(mem[c], salt)
      /\ \A K \in Tables : Told(K) => HdrTold(mem[c], K)
  BY <1>8, MemGood
<1>10. LUKS2_hdr_validate(m) /\ HdrSalted(m, salt) /\ \A K \in Tables : Told(K) => HdrTold(m, K)
  BY <1>2, <1>9, WipedValid
<1>11. Exchanged(disk, j) = Exchanged(disk, pc[c])
  BY <1>5, <1>6 DEF Exchanged
<1>12. m = Wiped(Exchanged(disk, j), j.old)
  BY <1>1, <1>2, <1>5, <1>11 DEF MemOK
<1> HIDE DEF m
<1>13. mem'[c] = m /\ pc'[c] = j
  BY <1>4 DEF TypePart
<1>14. ~Storing(c)' /\ Removing(c)' /\ ~Doomer(c)' /\ Changing(c)' = Changing(c)
  BY <1>5, <1>13 DEF Storing, Removing, Doomer, Changing
<1>15. Changing(c) => j.slot \in Slot \ {pc[c].old} /\ m.ks[j.slot] = mem[c].ks[pc[c].slot]
  BY <1>5, <1>7 DEF Changing
<1>16. JobOK(c)'
  <2>1. Changing(c)' => /\ j.key \in Key /\ j.pass \in Pass
                        /\ m.ks[j.slot] # None /\ m.ks[j.slot].type = "luks2"
    BY <1>3, <1>5, <1>14, <1>15 DEF JobOK
  <2>2. ~Changing(c)' => ~j.swap
    BY <1>3, <1>6, <1>14 DEF JobOK
  <2> QED
    BY <1>2, <1>5, <1>8, <1>13, <1>14, <2>1, <2>2 DEF JobOK
<1>17. MemOK(c)'
  BY <1>1, <1>5, <1>12, <1>13, <1>14 DEF MemOK
<1>18. Steps(c, m, j)
  <2>1. lock \in {c, NoOne} /\ lock' \in {c, NoOne} /\ j.at \in {"commit", "destroyed"} /\ Synced(c)'
    BY <1>1, <1>2, <1>5, <1>7, <1>13 DEF Synced
  <2>2. salt' \in Nat /\ salt <= salt' /\ faults' \in Nat /\ faults <= faults' /\ fresh' \subseteq Ctx
    BY <1>1, TypesAre DEF TypePart, KeyslotsTypeOK
  <2>3. m.seq <= disk'.seq
    BY <1>1, <1>2, <1>7, SeqsAre DEF Synced
  <2>4. m \in Header \cup {NoHdr} /\ j \in Resting \cup Jobs \cup Writes /\ HdrSalted(m, salt')
    BY <1>1, <1>5, <1>7, <1>10
  <2> QED
    BY <1>1, <1>4, <1>10, <1>16, <1>17, <2>1, <2>2, <2>3, <2>4 DEF Steps
<1>19. PICK K \in Tables : Told(K)
  BY DEF ToldPart
<1>20. Keeping(c)' => K[m.ks[j.slot].salt] = <<j.pass, j.key>>
  <2>1. SUFFICES ASSUME Keeping(c)' PROVE K[m.ks[j.slot].salt] = <<j.pass, j.key>>
    OBVIOUS
  <2>2. Changing(c) /\ Keeping(c)
    BY <1>3, <1>14, <2>1 DEF Keeping
  <2>3. K[mem[c].ks[pc[c].slot].salt] = <<pc[c].pass, pc[c].key>>
    BY <1>19, <2>2 DEF Told
  <2> QED
    BY <1>5, <1>15, <2>2, <2>3
<1> HIDE DEF s
<1>21. /\ area' \in Areas /\ AreaSalted(area', salt) /\ AreaTold(area', K)
       /\ \A u \in 1..Units : area'[u] = IF u \in Span(s) THEN Junk ELSE area[u]
  BY <1>1, <1>2, <1>19, AreaWritten
<1>22. AreaOK(c)'
  <2>1. Hit(c) = Doomed(c)
    <3>1. ~Changing(c) => ~pc[c].swap
      BY <1>3 DEF JobOK
    <3> QED
      BY <1>1, <3>1 DEF Hit, Doomed
  <2>2. disk.ks[Doomed(c)] # None /\ Span(disk.ks[Doomed(c)]) = Span(s) /\ Doomed(c) \in SlotsOf(disk)
    BY <1>1, <2>1, TargetIs DEF s, SlotsOf
  <2>3. Span(disk.ks[Doomed(c)]) \subseteq 1..Units
    BY <2>2, SpansFit, TypesAre DEF ValidPart
  <2>4. \A u \in Span(disk.ks[Doomed(c)]) : area'[u] = Junk
    BY <1>21, <2>2, <2>3
  <2>5. Doomed(c)' = Doomed(c)
    BY <1>5, <1>6, <1>13 DEF Doomed
  <2> QED
    BY <1>1, <1>5, <1>13, <2>2, <2>4, <2>5 DEF AreaOK
<1>23. GonePart'
  BY <1>1, <1>2, GoneAfter DEF s
<1>24. /\ owed' \subseteq Promises
       /\ \A e \in owed' : HeldBy(disk, area', e, e.slots \ Dooms')
       /\ \A x \in Ctx \ {c} : Synced(x)' => OwedAfter(x)'
       /\ Changing(c) => \A e \in owed' :
             \/ {pc[c].old, pc[c].slot} \subseteq e.slots
             \/ HeldBy(disk, area', e, e.slots \ {pc[c].old, pc[c].slot})
  <2>1. area' = Written(mem[c].ks[Target(c)], Junk) /\ disk' = disk
    BY <1>1 DEF s
  <2> QED
    BY <1>1, <1>14, <1>18, <2>1, AreaOwed
<1>25. OwedAfter(c)'
  BY <1>1, <1>5, <1>13, <1>14, <1>24 DEF OwedAfter
<1>26. /\ UNCHANGED <<disk, backup, asked>> /\ AreaSalted(area', salt')
       /\ \A x \in Ctx : Synced(x)' => OwedAfter(x)'
       /\ HdrTold(m, K) /\ lock \in {c, NoOne}
  BY <1>1, <1>10, <1>19, <1>21, <1>24, <1>25
<1> QED
  BY <1>14, <1>18, <1>19, <1>20, <1>21, <1>22, <1>23, <1>24, <1>26, SameDisk

(* The area of a passphrase that is changed in place is wiped first, and   *)
(* the keyslot gets a new salt in memory.                                  *)
LEMMA WipeAreaHolds ==
    ASSUME KeyslotsInv, NEW c \in Ctx, WipeArea(c)
    PROVE  KeyslotsInv'
<1> USE DEF KeyslotsInv
<1> DEFINE k == pc[c].slot
           v == pc[c].key
           p == pc[c].pass
           g == Prepared(mem[c], k, v)
           j == [pc[c] EXCEPT !.at = "store"]
           s == mem[c].ks[k]
<1>1. /\ pc[c].at = "wipe" /\ Locked(c) /\ lock = NoOne /\ lock' = NoOne /\ Target(c) = k
      /\ area' = Written(s, Junk) /\ owed' = StillOwed(c) /\ Torn(c)
      /\ UNCHANGED <<disk, backup, asked, fresh, faults>> /\ LUKS2_keyslot_store(c, mem[c], pc[c])
  BY DEF WipeArea, Locked, Target, Torn
<1>2. /\ Synced(c) /\ MemOK(c) /\ mem[c] \in Header /\ pc[c] \in Jobs /\ k \in Slot
      /\ s \in KeyslotRecords /\ mem[c] = disk
  BY <1>1, TargetIs DEF MemOK
<1>3. JobOK(c) /\ mem[c] # NoHdr /\ c # NoOne
  BY <1>2, NoHdrIs, Constants DEF JobPart
<1>4. v \in Key /\ p \in Pass /\ pc[c].old = AnyOne /\ s # None
      /\ \E d \in DigestSet(mem[c], k) : mem[c].dg[d].key = v
  BY <1>1, <1>3 DEF JobOK, DigestSet
<1>5. salt \in Nat /\ faults \in Nat /\ fresh \subseteq Ctx /\ faults' \in Nat /\ faults <= faults'
      /\ fresh' \subseteq Ctx /\ faults' = faults
  BY <1>1, TypesAre DEF TypePart, KeyslotsTypeOK
<1>6. CASE g = NoHdr
  <2>1. pc' = [pc EXCEPT ![c] = [at |-> "reload"]] /\ UNCHANGED <<mem, salt>>
    BY <1>1, <1>6 DEF LUKS2_keyslot_store, Fail
  <2>2. [at |-> "reload"] \in Resting /\ [at |-> "reload"] # Idle
    BY DEF Resting, Idle
  <2>3. mem' = [mem EXCEPT ![c] = mem[c]] /\ mem[c] \in Header \cup {NoHdr}
    BY <1>2, <2>1 DEF TypePart
  <2>4. /\ LUKS2_hdr_validate(mem[c]) /\ HdrSalted(mem[c], salt)
        /\ \A K \in Tables : Told(K) => HdrTold(mem[c], K)
    BY <1>3, MemGood
  <2>5. UNCHANGED <<disk, backup, asked, salt>>
    BY <1>1, <2>1
  <2> QED
    BY <1>1, <1>3, <1>5, <2>1, <2>2, <2>3, <2>4, <2>5, AreaRest
<1>7. CASE g # NoHdr
  <2>1. mem' = [mem EXCEPT ![c] = g] /\ salt' = salt + 1 /\ pc' = [pc EXCEPT ![c] = j]
    BY <1>1, <1>7 DEF LUKS2_keyslot_store, Go
  <2>2. /\ g \in Header /\ g.seq = mem[c].seq /\ g.dg = mem[c].dg /\ g.tk = mem[c].tk /\ LUKS2_hdr_validate(g)
        /\ \A i \in Slot \ {k} : g.ks[i] = mem[c].ks[i]
        /\ g.ks[k] # None /\ g.ks[k].type = "luks2"
        /\ g.ks[k].salt = salt + 1
        /\ mem[c].ks[k] # None => SameArea(g.ks[k], mem[c].ks[k])
    <3> HIDE DEF k, v
    <3> QED
      BY <1>2, <1>4, <1>5, <1>7, PreparedIs
  <2>3. PICK K \in Tables : Told(K)
    BY DEF ToldPart
  <2> DEFINE L == [K EXCEPT ![salt + 1] = <<p, v>>]
  <2>4. /\ L \in Tables /\ Told(L) /\ HdrTold(g, L) /\ L[g.ks[k].salt] = <<p, v>>
        /\ HdrSalted(g, salt + 1)
    <3>1. \A i \in Slot \ {k} : DigestsFrom(mem[c], mem[c], i)
      BY DEF DigestsFrom
    <3>2. mem[c].ks = mem[c].ks
      OBVIOUS
    <3> HIDE DEF k, v, p
    <3> QED
      BY <1>2, <1>3, <1>4, <1>7, <2>3, <3>1, <3>2, PreparedTold
  <2> HIDE DEF g, L
  <2>5. /\ j \in Jobs /\ j.at = "store" /\ j.slot = k /\ j.key = v /\ j.pass = p /\ j.old = AnyOne
    BY <1>2, <1>4 DEF Jobs
  <2> HIDE DEF j
  <2>6. mem'[c] = g /\ pc'[c] = j
    BY <2>1 DEF TypePart
  <2>7. Storing(c)' /\ ~Removing(c)' /\ ~Doomer(c)'
    BY <2>5, <2>6 DEF Storing, Removing, Doomer
  <2> HIDE DEF k, v, p
  <2>8. JobOK(c)'
    <3>1. g # NoHdr /\ g.ks[k].salt > 0 /\ AnyOne # k
      BY <1>2, <1>5, <1>7, <2>2, Constants
    <3> QED
      BY <1>4, <2>2, <2>5, <2>6, <2>7, <3>1 DEF JobOK
  <2>9. MemOK(c)'
    <3>1. \A i \in Slot \ {k} : g.ks[i] = disk.ks[i]
      BY <1>2, <2>2
    <3>2. \A i \in SlotsOf(disk) : disk.ks[i].salt # g.ks[k].salt
      <4>1. \A i \in SlotsOf(disk) : disk.ks[i].salt \in Nat /\ disk.ks[i].salt <= salt
        BY TypesAre, FieldsAre DEF SaltPart, HdrSalted, KeyslotRecords
      <4> QED
        BY <4>1, <1>5, <2>2
    <3>3. disk.ks[k] # None => SameArea(disk.ks[k], g.ks[k])
      BY <1>2, <2>2 DEF SameArea
    <3>4. g.tk = disk.tk /\ disk' = disk
      BY <1>1, <1>2, <2>2
    <3>5. Stores(c)'
      BY <2>5, <2>6, <3>1, <3>2, <3>3, <3>4 DEF Stores, SlotsOf
    <3> QED
      BY <2>5, <2>6, <3>5 DEF MemOK
  <2>10. Steps(c, g, j)
    <3>1. g \in Header \cup {NoHdr} /\ j \in Resting \cup Jobs \cup Writes
      BY <2>2, <2>5
    <3>2. salt' \in Nat /\ salt <= salt' /\ lock' = lock /\ lock' # c /\ j.at \notin {"commit", "destroyed"}
      BY <1>1, <1>3, <1>5, <2>1, <2>5
    <3>3. g.seq <= disk'.seq
      BY <1>1, <1>2, <2>2, SeqsAre
    <3>4. LUKS2_hdr_validate(g) /\ HdrSalted(g, salt')
      BY <2>1, <2>2, <2>4
    <3> QED
      BY <1>5, <2>1, <2>8, <2>9, <3>1, <3>2, <3>3, <3>4 DEF Steps
  <2> HIDE DEF s
  <2>11. area' \in Areas /\ AreaSalted(area', salt) /\ AreaTold(area', L)
    BY <1>1, <1>2, <2>4, AreaWritten
  <2>12. AreaSalted(area', salt')
    BY <1>5, <2>1, <2>11, SaltsGrow
  <2>13. GonePart'
    BY <1>1, <1>2, GoneAfter
  <2>14. /\ owed' \subseteq Promises
         /\ \A e \in owed' : HeldBy(disk, area', e, e.slots \ Dooms')
         /\ \A x \in Ctx \ {c} : Synced(x)' => OwedAfter(x)'
    <3>1. area' = Written(mem[c].ks[Target(c)], Junk) /\ disk' = disk
      BY <1>1 DEF s
    <3> QED
      BY <1>1, <2>7, <2>10, <3>1, AreaOwed
  <2>15. OwedAfter(c)' /\ AreaOK(c)'
    BY <2>5, <2>6, <2>7 DEF OwedAfter, AreaOK
  <2>16. /\ UNCHANGED <<disk, backup, asked>> /\ lock \in {c, NoOne}
         /\ \A x \in Ctx : Synced(x)' => OwedAfter(x)'
         /\ L[g.ks[j.slot].salt] = <<j.pass, j.key>>
    BY <1>1, <2>4, <2>5, <2>14, <2>15
  <2> QED
    BY <2>4, <2>7, <2>10, <2>11, <2>12, <2>13, <2>14, <2>15, <2>16, SameDisk
<1> QED
  BY <1>6, <1>7

-----------------------------------------------------------------------------
(* Steps that write the header                                             *)

(* The sequence id is no matter to the rest of a header.                   *)
LEMMA CommittedKeeps ==
    ASSUME NEW h \in Header, disk.seq \in Nat
    PROVE  LET g == Committed(h) IN
           /\ LUKS2_hdr_validate(h) => LUKS2_hdr_validate(g)
           /\ \A K : HdrTold(h, K) => HdrTold(g, K)
           /\ \A n : HdrSalted(h, n) => HdrSalted(g, n)
           /\ \A a, e, S : HeldBy(h, a, e, S) => HeldBy(g, a, e, S)
           /\ SlotsOf(g) = SlotsOf(h) /\ DigestsOf(g) = DigestsOf(h) /\ TokensOf(g) = TokensOf(h)
           /\ \A k : DigestSet(g, k) = DigestSet(h, k)
           /\ \A t : TokenSlots(g, t) = TokenSlots(h, t)
           /\ \A k : LUKS2_digest_by_keyslot(g, k) = LUKS2_digest_by_keyslot(h, k)
<1> DEFINE g == Committed(h)
<1>1. g.ks = h.ks /\ g.dg = h.dg /\ g.tk = h.tk
  BY CommittedIs
<1> HIDE DEF g
<1>2. SlotsOf(g) = SlotsOf(h) /\ DigestsOf(g) = DigestsOf(h) /\ TokensOf(g) = TokensOf(h)
  BY <1>1 DEF SlotsOf, DigestsOf, TokensOf
<1>3. \A k : DigestSet(g, k) = DigestSet(h, k)
  BY <1>1, <1>2 DEF DigestSet
<1>4. \A t : TokenSlots(g, t) = TokenSlots(h, t)
  BY <1>1 DEF TokenSlots
<1>5. \A k : LUKS2_digest_by_keyslot(g, k) = LUKS2_digest_by_keyslot(h, k)
  BY <1>1, <1>2 DEF LUKS2_digest_by_keyslot
<1>6. \A K : HdrTold(h, K) => HdrTold(g, K)
  BY <1>1, <1>2, <1>3 DEF HdrTold, SlotTold
<1>7. \A n : HdrSalted(h, n) => HdrSalted(g, n)
  BY <1>1, <1>2 DEF HdrSalted
<1>8. \A a, e, S : HeldBy(h, a, e, S) => HeldBy(g, a, e, S)
  BY <1>1 DEF HeldBy
<1>9. LUKS2_hdr_validate(h) => LUKS2_hdr_validate(g)
  <2>1. JsonSize(g) = JsonSize(h)
    BY <1>2 DEF JsonSize
  <2>2. hdr_validate_areas(h) => hdr_validate_areas(g)
    BY <1>1, <1>2 DEF hdr_validate_areas
  <2>3. LUKS2_keyslots_validate(h) => LUKS2_keyslots_validate(g)
    BY <1>1, <1>2 DEF LUKS2_keyslots_validate
  <2> QED
    BY <1>1, <1>2, <2>1, <2>2, <2>3 DEF LUKS2_hdr_validate
<1> QED
  BY <1>2, <1>3, <1>4, <1>5, <1>6, <1>7, <1>8, <1>9 DEF g

(* The header is written and the call is over.                             *)
LEMMA CommitRest ==
    ASSUME KeyslotsInv, NEW c \in Ctx, NEW h \in Header, NEW j \in Resting,
           LUKS2_hdr_validate(h), HdrSalted(h, salt), \A K \in Tables : Told(K) => HdrTold(h, K),
           disk' = Committed(h), mem' = [mem EXCEPT ![c] = Committed(h)], pc' = [pc EXCEPT ![c] = j],
           UNCHANGED <<area, backup, salt, fresh>>, lock \in {c, NoOne}, lock' = NoOne,
           faults' \in Nat, faults <= faults',
           owed' \subseteq Promises, asked' \in [Token -> SUBSET Slot], GonePart', AskedPart',
           \A e \in owed' : HeldBy(h, area, e, e.slots)
    PROVE  KeyslotsInv'
<1> USE DEF KeyslotsInv
<1> DEFINE g == Committed(h)
<1>1. disk.seq \in Nat /\ salt \in Nat
  BY SeqsAre, TypesAre
<1>2. g \in Header /\ g.seq = disk.seq + 1
  BY <1>1, CommittedIs
<1>3. /\ LUKS2_hdr_validate(g) /\ HdrSalted(g, salt) /\ \A K \in Tables : Told(K) => HdrTold(g, K)
      /\ \A e \in owed' : HeldBy(g, area, e, e.slots)
  BY <1>1, CommittedKeeps
<1>4. disk' = g /\ mem' = [mem EXCEPT ![c] = g] /\ mem'[c] = g /\ pc'[c] = j /\ g # NoHdr
  BY <1>2, NoHdrIs DEF TypePart
<1> HIDE DEF g
<1>5. /\ JobOK(c)' /\ ~Keeping(c)' /\ ~Doomer(c)' /\ OwedAfter(c)'
      /\ j.at \in {"idle", "reload"} /\ (j.at = "reload" <=> j # Idle)
      /\ Synced(c)' => MemOK(c)'
  BY <1>4, RestIs
<1>6. Steps(c, g, j)
  <2>1. lock' \in {c, NoOne} /\ lock' # c /\ j.at \notin {"commit", "destroyed"}
    BY <1>5, Constants
  <2>2. salt' \in Nat /\ salt <= salt' /\ fresh' \subseteq Ctx
    BY <1>1 DEF TypePart, KeyslotsTypeOK
  <2>3. g.seq <= disk'.seq
    BY <1>1, <1>2, <1>4
  <2>4. g \in Header \cup {NoHdr} /\ j \in Resting \cup Jobs \cup Writes /\ HdrSalted(g, salt')
    BY <1>2, <1>3
  <2> QED
    BY <1>3, <1>4, <1>5, <2>1, <2>2, <2>3, <2>4 DEF Steps
<1>7. PICK K \in Tables : Told(K)
  BY DEF ToldPart
<1>8. /\ disk' \in Header /\ disk'.seq = disk.seq + 1 /\ LUKS2_hdr_validate(disk)'
      /\ HdrSalted(disk', salt') /\ HdrTold(disk', K) /\ HdrTold(g, K)
      /\ UNCHANGED <<area, backup>>
      /\ \A e \in owed' : HeldBy(disk', area, e, e.slots)
  <2>1. LUKS2_hdr_validate(disk')
    BY <1>3, <1>4
  <2>2. LUKS2_hdr_validate(disk)'
    BY <2>1 DEF LUKS2_hdr_validate, JsonSize, hdr_validate_areas, LUKS2_keyslots_validate,
                SlotsOf, DigestsOf, TokensOf
  <2> QED
    BY <1>2, <1>3, <1>4, <1>7, <2>2
<1>9. \A e \in owed' : HeldBy(disk', area, e,
                IF Doomer(c)' THEN e.slots \ {Doomed(c)'} ELSE e.slots)
  BY <1>5, <1>8
<1> QED
  BY <1>5, <1>6, <1>7, <1>8, <1>9, NewDisk

(* Promises after a call that only writes the header.                      *)
LEMMA WriteHeld ==
    ASSUME KeyslotsInv, NEW c \in Ctx, pc[c].at = "write", Locked(c)
    PROVE  /\ WritesHeader(c) /\ mem[c] # NoHdr
           /\ \A e \in owed : HeldBy(mem[c], area, e, e.slots)
<1> USE DEF KeyslotsInv
<1>1. WritesHeader(c)
  BY DEF MemPart, MemOK, Synced, Locked
<1>2. mem[c] # NoHdr
  BY DEF JobPart, JobOK, Idle
<1>3. ASSUME NEW e \in owed
      PROVE  HeldBy(mem[c], area, e, e.slots)
  <2>1. HeldBy(disk, area, e, e.slots \ Dooms) /\ e.slots \subseteq Slot
    BY TypesAre DEF OwedPart, Promises
  <2>2. PICK k \in e.slots \ Dooms : Carries(disk.ks[k], area, e)
    BY <2>1 DEF HeldBy
  <2>3. k \in SlotsOf(disk)
    BY <2>1, <2>2 DEF Carries, SlotsOf
  <2>4. mem[c].ks[k] # None /\ SameSlot(mem[c].ks[k], disk.ks[k])
    BY <1>1, <2>3 DEF WritesHeader
  <2>5. Carries(mem[c].ks[k], area, e)
    BY <2>2, <2>4 DEF Carries, SameSlot, SameArea, Span
  <2> QED
    BY <2>5 DEF HeldBy
<1> QED
  BY <1>1, <1>2, <1>3

(* The commit of a call that only writes the header.                       *)
LEMMA CommitWriteHolds ==
    ASSUME KeyslotsInv, NEW c \in Ctx, CommitWrite(c)
    PROVE  KeyslotsInv'
<1> USE DEF KeyslotsInv
<1>1. /\ pc[c].at = "write" /\ Locked(c) /\ lock = NoOne /\ lock' = NoOne /\ lock \in {c, NoOne}
      /\ disk' = Committed(mem[c]) /\ mem' = [mem EXCEPT ![c] = Committed(mem[c])]
      /\ pc' = [pc EXCEPT ![c] = Idle]
      /\ UNCHANGED <<area, backup, owed, fresh, salt, faults>>
  BY DEF CommitWrite, Locked, Return, counters, TypePart
<1>2. /\ WritesHeader(c) /\ mem[c] # NoHdr
      /\ \A e \in owed : HeldBy(mem[c], area, e, e.slots)
  BY <1>1, WriteHeld
<1>3. /\ mem[c] \in Header /\ LUKS2_hdr_validate(mem[c]) /\ HdrSalted(mem[c], salt)
      /\ \A K \in Tables : Told(K) => HdrTold(mem[c], K)
  BY <1>2, MemGood
<1>4. /\ pc[c] \in Writes /\ pc[c].tok \in Token \cup {AnyOne} /\ pc[c].keyslots \subseteq Slot
      /\ asked \in [Token -> SUBSET Slot] /\ faults \in Nat
  BY <1>1, JobTypes, TypesAre DEF Writes, TypePart, KeyslotsTypeOK
<1>5. asked' = IF pc[c].tok = AnyOne THEN asked ELSE [asked EXCEPT ![pc[c].tok] = pc[c].keyslots]
  BY DEF CommitWrite
<1>6. asked' \in [Token -> SUBSET Slot]
  BY <1>4, <1>5
<1>7. /\ disk'.ks = mem[c].ks /\ disk'.tk = mem[c].tk
  BY <1>1, <1>3, CommittedIs, SeqsAre
<1>8. GonePart'
  <2> SUFFICES ASSUME faults' = 0, backup' = NoHdr, NEW u \in 1..Units, area'[u] # Junk
               PROVE  \E k \in SlotsOf(disk') : u \in Span(disk'.ks[k]) /\ disk'.ks[k].salt = area'[u][1]
    BY DEF GonePart, SlotsOf
  <2>1. PICK k \in SlotsOf(disk) : u \in Span(disk.ks[k]) /\ disk.ks[k].salt = area[u][1]
    BY <1>1, GoneBefore
  <2>2. mem[c].ks[k] # None /\ SameSlot(mem[c].ks[k], disk.ks[k])
    BY <1>2 DEF WritesHeader
  <2>3. k \in SlotsOf(disk') /\ u \in Span(disk'.ks[k]) /\ disk'.ks[k].salt = area'[u][1]
    BY <1>1, <1>7, <2>1, <2>2 DEF SlotsOf, SameSlot, SameArea, Span
  <2> QED
    BY <2>3
<1>9. AskedPart'
  <2> SUFFICES ASSUME faults' = 0
               PROVE  /\ \A t \in Token : asked'[t] = TokenSlots(disk', t)
                      /\ backup' # NoHdr => \A t \in Token : backup'.asked[t] = TokenSlots(backup'.hdr, t)
    BY DEF AskedPart, TokenSlots
  <2>1. faults = 0
    BY <1>1
  <2>2. \A t \in Token : asked[t] = TokenSlots(disk, t)
    BY <2>1 DEF AskedPart
  <2>3. \A t \in Token : t # pc[c].tok => TokenSlots(disk', t) = TokenSlots(disk, t)
    BY <1>2, <1>7 DEF WritesHeader, TokenSlots
  <2>4. pc[c].tok # AnyOne => TokenSlots(disk', pc[c].tok) = pc[c].keyslots
    BY <1>2, <1>7 DEF WritesHeader, TokenSlots
  <2>5. \A t \in Token : asked'[t] = TokenSlots(disk', t)
    BY <1>4, <1>5, <2>2, <2>3, <2>4, Constants
  <2>6. backup' # NoHdr => \A t \in Token : backup'.asked[t] = TokenSlots(backup'.hdr, t)
    BY <1>1, <2>1 DEF AskedPart
  <2> QED
    BY <2>5, <2>6
<1>10. /\ Idle \in Resting /\ faults' \in Nat /\ faults <= faults' /\ owed' \subseteq Promises
       /\ UNCHANGED <<area, backup, salt, fresh>> /\ \A e \in owed' : HeldBy(mem[c], area, e, e.slots)
  BY <1>1, <1>2, <1>4, TypesAre DEF Resting
<1> QED
  BY <1>1, <1>3, <1>6, <1>8, <1>9, <1>10, CommitRest

(* The keyslot that is stored and the ones that were there.                *)
LEMMA StoreHeld ==
    ASSUME KeyslotsInv, NEW c \in Ctx, pc[c].at = "commit"
    PROVE  /\ lock = c /\ Synced(c) /\ Stores(c) /\ OwedAfter(c) /\ JobOK(c) /\ pc[c] \in Jobs
           /\ mem[c] \in Header /\ pc[c].slot \in Slot /\ pc[c].slot \in SlotsOf(mem[c])
           /\ mem[c].ks[pc[c].slot] # None /\ mem[c].ks[pc[c].slot].type = "luks2"
           /\ \A e : pc[c].pass \in e.passes /\ pc[c].key = e.key =>
                        Carries(mem[c].ks[pc[c].slot], area, e)
           /\ \A e, S : S \subseteq Slot /\ HeldBy(disk, area, e, S) =>
                        HeldBy(mem[c], area, e, S \ {pc[c].slot})
           /\ faults = 0 /\ backup = NoHdr => \A u \in 1..Units : area[u] # Junk =>
                 \E k \in SlotsOf(mem[c]) : u \in Span(mem[c].ks[k]) /\ mem[c].ks[k].salt = area[u][1]
<1> USE DEF KeyslotsInv
<1> DEFINE s == pc[c].slot
           r == mem[c].ks[s]
<1>1. lock = c /\ Synced(c)
  BY DEF SeqPart
<1>2. Stores(c) /\ OwedAfter(c) /\ JobOK(c) /\ pc[c] \in Jobs
  BY <1>1, JobTypes DEF MemPart, MemOK, Storing, OwedPart, JobPart
<1>3. mem[c] # NoHdr
  BY <1>2 DEF JobOK, Idle
<1>4. mem[c] \in Header /\ s \in Slot
  BY <1>2, <1>3, TypesAre DEF Jobs
<1>5. r # None /\ r.type = "luks2"
  BY <1>2 DEF JobOK, Storing
<1>6. s \in SlotsOf(mem[c])
  BY <1>4, <1>5 DEF SlotsOf
<1>7. \A u \in Span(r) : area[u] = <<r.salt, pc[c].pass, pc[c].key>>
  BY DEF AreaPart, AreaOK
<1>8. \A e : pc[c].pass \in e.passes /\ pc[c].key = e.key => Carries(r, area, e)
  BY <1>5, <1>7 DEF Carries
<1>9. /\ \A k \in Slot \ {s} : mem[c].ks[k] = disk.ks[k]
      /\ \A k \in SlotsOf(disk) : disk.ks[k].salt # r.salt
      /\ disk.ks[s] # None => SameArea(disk.ks[s], r)
  BY <1>2 DEF Stores
<1>10. \A u : disk.ks[s] # None /\ u \in Span(disk.ks[s]) => area[u][1] # disk.ks[s].salt
  <2> SUFFICES ASSUME NEW u, disk.ks[s] # None, u \in Span(disk.ks[s])
               PROVE  area[u][1] # disk.ks[s].salt
    OBVIOUS
  <2>1. u \in Span(r)
    BY <1>9 DEF SameArea, Span
  <2>2. area[u][1] = r.salt
    BY <1>7, <2>1
  <2>3. s \in SlotsOf(disk)
    BY <1>4 DEF SlotsOf
  <2> QED
    BY <1>9, <2>2, <2>3
<1>11. ASSUME NEW e, NEW S, S \subseteq Slot, HeldBy(disk, area, e, S)
       PROVE  HeldBy(mem[c], area, e, S \ {s})
  <2>1. PICK k \in S : Carries(disk.ks[k], area, e)
    BY <1>11 DEF HeldBy
  <2>2. k \in SlotsOf(disk)
    BY <1>11, <2>1 DEF Carries, SlotsOf
  <2>3. k # s
    <3> SUFFICES ASSUME k = s PROVE FALSE
      OBVIOUS
    <3>1. PICK p \in e.passes : \A u \in Span(disk.ks[s]) : area[u] = <<disk.ks[s].salt, p, e.key>>
      BY <2>1 DEF Carries
    <3>2. PICK u : u \in Span(disk.ks[s])
      BY <2>2, TypesAre, FieldsAre, SpanIs
    <3>3. area[u][1] = disk.ks[s].salt
      BY <3>1, <3>2
    <3>4. disk.ks[s] # None
      BY <2>2 DEF SlotsOf
    <3> QED
      BY <1>10, <3>2, <3>3, <3>4
  <2>4. mem[c].ks[k] = disk.ks[k]
    BY <1>9, <1>11, <2>3
  <2> QED
    BY <2>1, <2>3, <2>4 DEF HeldBy
<1>12. ASSUME faults = 0, backup = NoHdr, NEW u \in 1..Units, area[u] # Junk
       PROVE  \E k \in SlotsOf(mem[c]) : u \in Span(mem[c].ks[k]) /\ mem[c].ks[k].salt = area[u][1]
  <2>1. CASE \E k \in SlotsOf(disk) : u \in Span(disk.ks[k]) /\ disk.ks[k].salt = area[u][1]
    <3>1. PICK k \in SlotsOf(disk) : u \in Span(disk.ks[k]) /\ disk.ks[k].salt = area[u][1]
      BY <2>1
    <3>2. k # s
      BY <1>10, <3>1 DEF SlotsOf
    <3>3. mem[c].ks[k] = disk.ks[k] /\ k \in SlotsOf(mem[c])
      BY <1>9, <3>1, <3>2 DEF SlotsOf
    <3> QED
      BY <3>1, <3>3
  <2>2. CASE \E x \in Ctx : /\ pc[x].at = "commit" /\ u \in Span(mem[x].ks[pc[x].slot])
                            /\ mem[x].ks[pc[x].slot].salt = area[u][1]
    <3>1. PICK x \in Ctx : /\ pc[x].at = "commit" /\ u \in Span(mem[x].ks[pc[x].slot])
                           /\ mem[x].ks[pc[x].slot].salt = area[u][1]
      BY <2>2
    <3>2. x = c
      BY <1>1, <3>1 DEF SeqPart
    <3> QED
      BY <1>6, <3>1, <3>2
  <2> QED
    BY <1>12, <2>1, <2>2 DEF GonePart
<1> QED
  BY <1>1, <1>2, <1>4, <1>5, <1>6, <1>8, <1>11, <1>12

(* Two keyslots of the same key may change their numbers.                  *)
LEMMA SwapValid ==
    ASSUME NEW h \in Header, LUKS2_hdr_validate(h), NEW i \in SlotsOf(h), NEW k \in SlotsOf(h), i # k,
           h.ks[i].type = "luks2", h.ks[k].type = "luks2", DigestSet(h, i) \cap DigestSet(h, k) # {}
    PROVE  /\ LUKS2_hdr_validate(LUKS2_keyslot_swap(h, i, k))
           /\ \A K : HdrTold(h, K) => HdrTold(LUKS2_keyslot_swap(h, i, k), K)
           /\ \A n : HdrSalted(h, n) => HdrSalted(LUKS2_keyslot_swap(h, i, k), n)
<1> DEFINE g == LUKS2_keyslot_swap(h, i, k)
<1>1. i \in Slot /\ k \in Slot /\ h.ks[i] # None /\ h.ks[k] # None
  BY DEF SlotsOf
<1>2. /\ g \in Header /\ g.dg = h.dg /\ g.tk = h.tk
      /\ g.ks[i] = h.ks[k] /\ g.ks[k] = h.ks[i]
      /\ \A l \in Slot \ {i, k} : g.ks[l] = h.ks[l]
  BY <1>1, SwapIs
<1> HIDE DEF g
<1>3. SlotsOf(g) = SlotsOf(h)
  BY <1>1, <1>2 DEF SlotsOf
<1>4. DigestsOf(g) = DigestsOf(h) /\ TokensOf(g) = TokensOf(h)
  BY <1>2 DEF DigestsOf, TokensOf
<1>5. \A l : DigestSet(g, l) = DigestSet(h, l)
  BY <1>2, <1>4 DEF DigestSet
<1> DEFINE to(l) == IF l = i THEN k ELSE IF l = k THEN i ELSE l
<1>6. \A l \in SlotsOf(h) : to(l) \in SlotsOf(h) /\ g.ks[l] = h.ks[to(l)]
  BY <1>2 DEF SlotsOf
<1>7. \A l, n \in SlotsOf(h) : l # n => to(l) # to(n)
  OBVIOUS
<1> HIDE DEF to
<1>8. LUKS2_hdr_validate(g)
  <2>1. JsonSize(g) <= JsonMax
    BY <1>3, <1>4 DEF LUKS2_hdr_validate, JsonSize
  <2>2. hdr_validate_areas(g)
    <3>1. hdr_validate_areas(h)
      BY DEF LUKS2_hdr_validate
    <3>2. \A l \in SlotsOf(h) : /\ h.ks[l].off >= 1 /\ h.ks[l].len > 0
                              /\ h.ks[l].off + h.ks[l].len <= Units + 1
      BY <3>1 DEF hdr_validate_areas
    <3>3. \A l, n \in SlotsOf(h) : l # n => Span(h.ks[l]) \cap Span(h.ks[n]) = {}
      BY <3>1 DEF hdr_validate_areas
    <3>4. \A l \in SlotsOf(g) : /\ g.ks[l].off >= 1 /\ g.ks[l].len > 0
                              /\ g.ks[l].off + g.ks[l].len <= Units + 1
      BY <1>3, <1>6, <3>2
    <3>5. ASSUME NEW l \in SlotsOf(g), NEW n \in SlotsOf(g), l # n
          PROVE  Span(g.ks[l]) \cap Span(g.ks[n]) = {}
      <4>1. to(l) \in SlotsOf(h) /\ to(n) \in SlotsOf(h) /\ to(l) # to(n)
            /\ g.ks[l] = h.ks[to(l)] /\ g.ks[n] = h.ks[to(n)]
        BY <1>3, <1>6, <1>7, <3>5
      <4> QED
        BY <3>3, <4>1
    <3> QED
      BY <3>4, <3>5 DEF hdr_validate_areas
  <2>3. LUKS2_keyslots_validate(g)
    <3>1. \A l \in SlotsOf(g) : g.ks[l].type = "luks2" => h.ks[l].type = "luks2"
      BY <1>2, <1>3 DEF SlotsOf
    <3> QED
      BY <1>2, <1>3, <1>4, <3>1 DEF LUKS2_hdr_validate, LUKS2_keyslots_validate
  <2> QED
    BY <1>2, <1>3, <1>4, <2>1, <2>2, <2>3 DEF LUKS2_hdr_validate
<1>9. ASSUME NEW K, HdrTold(h, K)
      PROVE  HdrTold(g, K)
  <2>1. SlotTold(h, i, K) /\ SlotTold(h, k, K)
    BY <1>9 DEF HdrTold
  <2>2. PICK d : d \in DigestSet(h, i) /\ d \in DigestSet(h, k)
    OBVIOUS
  <2>3. K[h.ks[i].salt][2] = K[h.ks[k].salt][2]
    BY <2>1, <2>2 DEF SlotTold
  <2>4. \A l \in {i, k} : SlotTold(g, l, K)
    BY <1>2, <1>5, <2>1, <2>3 DEF SlotTold
  <2>5. \A l \in SlotsOf(h) \ {i, k} : h.ks[l].type = "luks2" => SlotTold(g, l, K)
    BY <1>2, <1>5, <1>9 DEF HdrTold, SlotTold, SlotsOf
  <2>6. \A l \in SlotsOf(h) \ {i, k} : g.ks[l].type = "luks2" => h.ks[l].type = "luks2"
    BY <1>2 DEF SlotsOf
  <2> QED
    BY <1>3, <2>4, <2>5, <2>6 DEF HdrTold
<1>10. ASSUME NEW n, HdrSalted(h, n)
       PROVE  HdrSalted(g, n)
  BY <1>3, <1>6, <1>10 DEF HdrSalted
<1> QED
  BY <1>8, <1>9, <1>10 DEF g

(* What is on the device once a keyslot is stored.                         *)
LEMMA StoreCommitted ==
    ASSUME KeyslotsInv, NEW c \in Ctx, CommitStore(c)
    PROVE  LET g == Committed(mem[c])  j == pc[c] IN
           /\ j.at = "commit" /\ disk' = g /\ lock = c /\ lock' = NoOne
           /\ UNCHANGED <<area, backup, fresh, salt, faults>>
           /\ g \in Header /\ g.seq = disk.seq + 1
           /\ g.ks = mem[c].ks /\ g.dg = mem[c].dg /\ g.tk = mem[c].tk
           /\ LUKS2_hdr_validate(g) /\ HdrSalted(g, salt)
           /\ \A K \in Tables : Told(K) => HdrTold(g, K)
           /\ \A i : DigestSet(g, i) = DigestSet(mem[c], i)
           /\ owed' \subseteq Promises /\ asked' \in [Token -> SUBSET Slot]
           /\ GonePart' /\ AskedPart'
           /\ \A e \in owed' : HeldBy(g, area, e, e.slots)
<1> USE DEF KeyslotsInv
<1> DEFINE g == Committed(mem[c])
           j == pc[c]
<1>1. /\ j.at = "commit" /\ disk' = g /\ lock' = NoOne
      /\ UNCHANGED <<area, backup, fresh, salt, faults>>
      /\ owed' = IF j.old = AnyOne THEN owed \cup {Promise(j)} ELSE owed
      /\ asked' = IF j.old = AnyOne THEN asked
                ELSE [t \in Token |-> IF j.old \in asked[t] THEN asked[t] \cup {j.slot}
                                      ELSE asked[t]]
  BY DEF CommitStore, counters
<1>2. /\ lock = c /\ Stores(c) /\ JobOK(c) /\ j \in Jobs
      /\ mem[c] \in Header /\ j.slot \in Slot
      /\ \A e : j.pass \in e.passes /\ j.key = e.key => Carries(mem[c].ks[j.slot], area, e)
      /\ \A e, S : S \subseteq Slot /\ HeldBy(disk, area, e, S) => HeldBy(mem[c], area, e, S \ {j.slot})
      /\ faults = 0 /\ backup = NoHdr => \A u \in 1..Units : area[u] # Junk =>
            \E k \in SlotsOf(mem[c]) : u \in Span(mem[c].ks[k]) /\ mem[c].ks[k].salt = area[u][1]
  BY <1>1, StoreHeld
<1>3. mem[c] # NoHdr /\ disk.seq \in Nat
  BY <1>2, NoHdrIs, SeqsAre
<1>4. /\ LUKS2_hdr_validate(mem[c]) /\ HdrSalted(mem[c], salt)
      /\ \A K \in Tables : Told(K) => HdrTold(mem[c], K)
  BY <1>3, MemGood
<1>5. /\ g \in Header /\ g.seq = disk.seq + 1
      /\ g.ks = mem[c].ks /\ g.dg = mem[c].dg /\ g.tk = mem[c].tk
  BY <1>2, <1>3, CommittedIs
<1>6. /\ LUKS2_hdr_validate(g) /\ HdrSalted(g, salt)
      /\ \A K \in Tables : Told(K) => HdrTold(g, K)
      /\ \A i : DigestSet(g, i) = DigestSet(mem[c], i)
      /\ \A t : TokenSlots(g, t) = TokenSlots(mem[c], t)
      /\ SlotsOf(g) = SlotsOf(mem[c])
  BY <1>2, <1>3, <1>4, CommittedKeeps
<1> HIDE DEF g
<1>7. j.key \in Key /\ j.pass \in Pass /\ j.old \in Slot \cup {AnyOne} /\ asked \in [Token -> SUBSET Slot]
      /\ owed \subseteq Promises
  BY <1>1, <1>2, TypesAre DEF JobOK, Jobs, TypePart, KeyslotsTypeOK
<1> HIDE DEF j
<1>8. Promise(j) \in Promises /\ Promise(j).slots = {j.slot} /\ j.pass \in Promise(j).passes
      /\ j.key = Promise(j).key
  BY <1>2, <1>7 DEF Promise, Promises
<1>9. owed' \subseteq Promises
  BY <1>1, <1>7, <1>8
<1>10. asked' \in [Token -> SUBSET Slot]
  BY <1>1, <1>2, <1>7
<1>11. ASSUME NEW e \in owed'
       PROVE  HeldBy(g, area, e, e.slots)
  <2>1. CASE e \in owed
    <3>1. HeldBy(disk, area, e, e.slots \ Dooms) /\ e.slots \ Dooms \subseteq Slot
      BY <1>7, <2>1 DEF OwedPart, Promises
    <3>2. HeldBy(mem[c], area, e, (e.slots \ Dooms) \ {j.slot})
      BY <1>2, <3>1
    <3> QED
      BY <1>5, <3>2 DEF HeldBy
  <2>2. CASE e = Promise(j)
    <3>1. Carries(mem[c].ks[j.slot], area, e)
      BY <1>2, <1>8, <2>2
    <3> QED
      BY <1>5, <1>8, <2>2, <3>1 DEF HeldBy
  <2> QED
    BY <1>1, <2>1, <2>2
<1>12. GonePart'
  <2> SUFFICES ASSUME faults' = 0, backup' = NoHdr, NEW u \in 1..Units, area'[u] # Junk
               PROVE  \E k \in SlotsOf(disk') : u \in Span(disk'.ks[k]) /\ disk'.ks[k].salt = area'[u][1]
    BY DEF GonePart, SlotsOf
  <2>1. PICK k \in SlotsOf(mem[c]) : u \in Span(mem[c].ks[k]) /\ mem[c].ks[k].salt = area[u][1]
    BY <1>1, <1>2
  <2> QED
    BY <1>1, <1>5, <1>6, <2>1
<1>13. AskedPart'
  <2> SUFFICES ASSUME faults' = 0
               PROVE  /\ \A t \in Token : asked'[t] = TokenSlots(disk', t)
                      /\ backup' # NoHdr => \A t \in Token : backup'.asked[t] = TokenSlots(backup'.hdr, t)
    BY DEF AskedPart, TokenSlots
  <2>1. faults = 0
    BY <1>1
  <2>2. \A t \in Token : asked[t] = TokenSlots(disk, t)
    BY <2>1 DEF AskedPart
  <2>3. \A t \in Token : asked'[t] = TokenSlots(mem[c], t)
    <3>1. CASE j.old = AnyOne
      <4>1. mem[c].tk = disk.tk
        BY <1>2, <3>1 DEF Stores, j
      <4> QED
        BY <1>1, <2>2, <3>1, <4>1 DEF TokenSlots
    <3>2. CASE j.old # AnyOne
      <4> DEFINE q == LUKS2_token_assignment_copy(disk, j.old, j.slot)
      <4>1. mem[c].tk = q.tk
        BY <1>2, <3>2 DEF Stores, j
      <4>2. j.old \in Slot /\ disk \in Header
        BY <1>7, <3>2, TypesAre
      <4>3. \A t \in Token : TokenSlots(q, t) = IF j.old \in TokenSlots(disk, t)
                                   THEN TokenSlots(disk, t) \cup {j.slot} ELSE TokenSlots(disk, t)
        <5>1. j.old \in Slot /\ disk \in Header /\ j.slot \in Slot
          BY <1>2, <4>2 DEF j
        <5> QED
          BY <5>1, CopyIs
      <4> HIDE DEF q
      <4>4. \A t \in Token : TokenSlots(mem[c], t) = TokenSlots(q, t)
        BY <4>1 DEF TokenSlots
      <4>5. \A t \in Token : asked'[t] = IF j.old \in asked[t] THEN asked[t] \cup {j.slot} ELSE asked[t]
        BY <1>1, <3>2
      <4> QED
        BY <2>2, <4>3, <4>4, <4>5
    <3> QED
      BY <3>1, <3>2
  <2>4. backup' # NoHdr => \A t \in Token : backup'.asked[t] = TokenSlots(backup'.hdr, t)
    BY <1>1, <2>1 DEF AskedPart
  <2> QED
    BY <1>1, <1>6, <2>3, <2>4
<1> QED
  BY <1>1, <1>2, <1>5, <1>6, <1>9, <1>10, <1>11, <1>12, <1>13 DEF g, j

(* The new keyslot is stored and the old one is to be destroyed.           *)
LEMMA StoredChange ==
    ASSUME KeyslotsInv, NEW c \in Ctx, CommitStore(c), pc[c].old # AnyOne,
           NEW m \in Header, NEW j \in Jobs, mem' = [mem EXCEPT ![c] = m], pc' = [pc EXCEPT ![c] = j],
           j.at = "destroy", {j.slot, j.old} = {pc[c].slot, pc[c].old}, j.slot # j.old,
           j.pass = pc[c].pass, j.key = pc[c].key,
           (IF j.swap THEN j.slot ELSE j.old) = pc[c].old,
           m = Exchanged(Committed(mem[c]), j), m.seq = Committed(mem[c]).seq,
           LUKS2_hdr_validate(m), HdrSalted(m, salt), \A K \in Tables : Told(K) => HdrTold(m, K),
           m.ks[j.slot] = mem[c].ks[pc[c].slot], m.ks[j.old] = mem[c].ks[pc[c].old]
    PROVE  KeyslotsInv'
<1> USE DEF KeyslotsInv
<1> DEFINE g == Committed(mem[c])
           s == pc[c].slot
           o == pc[c].old
<1>1. /\ pc[c].at = "commit" /\ disk' = g /\ lock = c /\ lock' = NoOne
      /\ UNCHANGED <<area, backup, fresh, salt, faults>>
      /\ g \in Header /\ g.seq = disk.seq + 1 /\ g.ks = mem[c].ks
      /\ LUKS2_hdr_validate(g) /\ HdrSalted(g, salt)
      /\ \A K \in Tables : Told(K) => HdrTold(g, K)
      /\ owed' \subseteq Promises /\ asked' \in [Token -> SUBSET Slot]
      /\ GonePart' /\ AskedPart'
  BY StoreCommitted
<1>2. owed' = owed
  BY DEF CommitStore
<1>3. /\ OwedAfter(c) /\ JobOK(c) /\ pc[c] \in Jobs /\ s \in Slot
      /\ mem[c].ks[s] # None /\ mem[c].ks[s].type = "luks2"
      /\ \A e : pc[c].pass \in e.passes /\ pc[c].key = e.key => Carries(mem[c].ks[s], area, e)
      /\ \A e, S : S \subseteq Slot /\ HeldBy(disk, area, e, S) => HeldBy(mem[c], area, e, S \ {s})
  BY <1>1, StoreHeld
<1>4. Storing(c) /\ Keeping(c)
  BY <1>1 DEF Storing, Keeping
<1>5. o \in Slot /\ o # s /\ pc[c].pass \in Pass /\ pc[c].key \in Key /\ mem[c].ks[o] # None
  BY <1>1, <1>3, <1>4 DEF JobOK, Jobs
<1>6. mem'[c] = m /\ pc'[c] = j /\ m # NoHdr
  BY NoHdrIs DEF TypePart
<1> HIDE DEF g
<1>7. ~Storing(c)' /\ Removing(c)' /\ Changing(c)' /\ Keeping(c)' /\ Doomed(c)' = o
  BY <1>6 DEF Storing, Removing, Changing, Keeping, Doomed
<1>8. Synced(c)' /\ Doomer(c)'
  BY <1>1, <1>6, <1>7 DEF Synced, Doomer, g
<1>9. JobOK(c)'
  BY <1>3, <1>5, <1>6, <1>7 DEF JobOK
<1>10. MemOK(c)'
  BY <1>1, <1>6, <1>7 DEF MemOK, g
<1>11. Steps(c, m, j)
  <2>1. lock \in {c, NoOne} /\ lock' \in {c, NoOne} /\ lock' # c /\ j.at \notin {"commit", "destroyed"}
    BY <1>1, Constants
  <2>2. salt' \in Nat /\ salt <= salt' /\ faults' \in Nat /\ faults <= faults' /\ fresh' \subseteq Ctx
    BY <1>1, TypesAre DEF TypePart, KeyslotsTypeOK
  <2>3. m.seq <= disk'.seq
    <3>1. m.seq = disk'.seq /\ m.seq \in Nat
      BY <1>1, FieldsAre DEF g
    <3> QED
      BY <3>1
  <2>4. m \in Header \cup {NoHdr} /\ j \in Resting \cup Jobs \cup Writes /\ HdrSalted(m, salt')
    BY <1>1
  <2> QED
    BY <1>9, <1>10, <2>1, <2>2, <2>3, <2>4 DEF Steps
<1>12. PICK K \in Tables : Told(K)
  BY DEF ToldPart
<1>13. K[m.ks[j.slot].salt] = <<j.pass, j.key>>
  BY <1>4, <1>12 DEF Told
<1>14. ASSUME NEW e \in owed
       PROVE  /\ HeldBy(g, area, e, e.slots \ {o})
              /\ {o, s} \subseteq e.slots \/ HeldBy(g, area, e, e.slots \ {o, s})
  <2> DEFINE S == e.slots \ (Dooms \cup {o})
  <2>1. CASE {o, s} \subseteq e.slots /\ pc[c].pass \in e.passes /\ pc[c].key = e.key
    <3>1. Carries(g.ks[s], area, e)
      BY <1>1, <1>3, <2>1
    <3>2. s \in e.slots \ {o}
      BY <1>5, <2>1
    <3> QED
      BY <2>1, <3>1, <3>2 DEF HeldBy
  <2>2. CASE HeldBy(disk, area, e, S)
    <3>1. S \subseteq Slot
      BY TypesAre DEF Promises
    <3>2. HeldBy(mem[c], area, e, S \ {s})
      BY <1>3, <2>2, <3>1
    <3>3. HeldBy(g, area, e, S \ {s})
      BY <1>1, <3>2 DEF HeldBy
    <3>4. S \ {s} \subseteq e.slots \ {o} /\ S \ {s} \subseteq e.slots \ {o, s}
      OBVIOUS
    <3> QED
      BY <3>3, <3>4, HeldMore
  <2> QED
    BY <1>3, <1>4, <2>1, <2>2 DEF OwedAfter
<1>15. OwedAfter(c)'
  <2>1. \A e \in owed' : \/ {j.old, j.slot} \subseteq e.slots
                         \/ HeldBy(disk', area', e, e.slots \ {j.old, j.slot})
    BY <1>1, <1>2, <1>14
  <2> QED
    BY <1>6, <1>7, <2>1 DEF OwedAfter
<1>16. /\ disk' \in Header /\ disk'.seq = disk.seq + 1 /\ LUKS2_hdr_validate(disk)'
       /\ HdrSalted(disk', salt') /\ HdrTold(disk', K) /\ HdrTold(m, K) /\ lock \in {c, NoOne}
       /\ UNCHANGED <<area, backup>>
  <2>1. LUKS2_hdr_validate(disk')
    BY <1>1
  <2>2. LUKS2_hdr_validate(disk)'
    BY <2>1 DEF LUKS2_hdr_validate, JsonSize, hdr_validate_areas, LUKS2_keyslots_validate,
                SlotsOf, DigestsOf, TokensOf
  <2> QED
    BY <1>1, <1>12, <2>2
<1>17. \A e \in owed' : HeldBy(disk', area, e,
                IF Doomer(c)' THEN e.slots \ {Doomed(c)'} ELSE e.slots)
  BY <1>1, <1>2, <1>7, <1>8, <1>14
<1> QED
  BY <1>1, <1>11, <1>12, <1>13, <1>15, <1>16, <1>17, NewDisk

(* The commit of a new keyslot, for each way the call goes on.             *)
LEMMA CommitStoreHolds ==
    ASSUME KeyslotsInv, NEW c \in Ctx, CommitStore(c)
    PROVE  KeyslotsInv'
<1> USE DEF KeyslotsInv
<1> DEFINE g == Committed(mem[c])
           q == pc[c]
<1>1. /\ q.at = "commit" /\ disk' = g /\ lock = c /\ lock' = NoOne
      /\ UNCHANGED <<area, backup, fresh, salt, faults>>
      /\ g \in Header /\ g.seq = disk.seq + 1
      /\ g.ks = mem[c].ks /\ g.dg = mem[c].dg /\ g.tk = mem[c].tk
      /\ LUKS2_hdr_validate(g) /\ HdrSalted(g, salt)
      /\ \A K \in Tables : Told(K) => HdrTold(g, K)
      /\ \A i : DigestSet(g, i) = DigestSet(mem[c], i)
      /\ owed' \subseteq Promises /\ asked' \in [Token -> SUBSET Slot]
      /\ GonePart' /\ AskedPart'
      /\ \A e \in owed' : HeldBy(g, area, e, e.slots)
  BY StoreCommitted
<1>2. /\ JobOK(c) /\ q \in Jobs /\ q.slot \in Slot /\ mem[c] \in Header
      /\ mem[c].ks[q.slot] # None /\ mem[c].ks[q.slot].type = "luks2" /\ Storing(c)
  BY <1>1, StoreHeld DEF Storing
<1>3. /\ q.old # q.slot /\ q.old \in Slot \cup {AnyOne}
      /\ q.old # AnyOne => /\ mem[c].ks[q.old] # None /\ mem[c].ks[q.old].type = "luks2"
                           /\ DigestSet(mem[c], q.old) \cap DigestSet(mem[c], q.slot) # {}
  BY <1>1, <1>2 DEF JobOK, Jobs
<1>4. \/ /\ q.old # AnyOne /\ q.swap
         /\ mem' = [mem EXCEPT ![c] = LUKS2_keyslot_swap(g, q.old, q.slot)]
         /\ Go(c, [q EXCEPT !.slot = q.old, !.old = q.slot], "destroy")
      \/ /\ q.old # AnyOne /\ ~q.swap
         /\ mem' = [mem EXCEPT ![c] = g] /\ Go(c, q, "destroy")
      \/ /\ q.old = AnyOne /\ q.newkey
         /\ mem' = [mem EXCEPT ![c] = LUKS2_digests_erase_unused(
                    update_volume_key_segment_digest(g, LUKS2_digest_by_keyslot(g, q.slot)))]
         /\ pc' = [pc EXCEPT ![c] = WriteJob(AnyOne, {}, TRUE)]
      \/ q.old = AnyOne /\ ~q.newkey /\ mem' = [mem EXCEPT ![c] = g] /\ Return(c)
  BY DEF CommitStore, AfterStore
<1>5. CASE /\ q.old # AnyOne /\ q.swap
           /\ mem' = [mem EXCEPT ![c] = LUKS2_keyslot_swap(g, q.old, q.slot)]
           /\ Go(c, [q EXCEPT !.slot = q.old, !.old = q.slot], "destroy")
  <2> DEFINE m == LUKS2_keyslot_swap(g, q.old, q.slot)
             j == [[q EXCEPT !.slot = q.old, !.old = q.slot] EXCEPT !.at = "destroy"]
  <2>1. q.old \in Slot
    BY <1>3, <1>5
  <2>2. /\ j \in Jobs /\ j.at = "destroy" /\ j.slot = q.old /\ j.old = q.slot /\ j.pass = q.pass
        /\ j.key = q.key
    BY <1>2, <2>1 DEF Jobs
  <2>3. j.swap = q.swap
    BY <1>2 DEF Jobs
  <2>4. mem' = [mem EXCEPT ![c] = m] /\ pc' = [pc EXCEPT ![c] = j]
    BY <1>5 DEF Go
  <2> HIDE DEF j, g
  <2>5. q.old \in SlotsOf(g) /\ q.slot \in SlotsOf(g)
    BY <1>1, <1>2, <1>3, <1>5, <2>1 DEF SlotsOf
  <2>6. /\ m \in Header /\ m.seq = g.seq /\ m.ks[q.old] = g.ks[q.slot] /\ m.ks[q.slot] = g.ks[q.old]
    <3> HIDE DEF q
    <3> QED
      BY <1>1, <1>2, <2>1, SwapIs
  <2>7. LUKS2_hdr_validate(m) /\ HdrSalted(m, salt) /\ \A K \in Tables : Told(K) => HdrTold(m, K)
    <3>1. /\ g.ks[q.old].type = "luks2" /\ g.ks[q.slot].type = "luks2"
          /\ DigestSet(g, q.old) \cap DigestSet(g, q.slot) # {}
      BY <1>1, <1>2, <1>3, <1>5
    <3> QED
      BY <1>1, <1>3, <2>5, <3>1, SwapValid
  <2>8. m = Exchanged(g, j)
    BY <1>5, <2>2, <2>3 DEF Exchanged
  <2> HIDE DEF m
  <2>9. /\ {j.slot, j.old} = {q.slot, q.old} /\ j.slot # j.old
        /\ (IF j.swap THEN j.slot ELSE j.old) = q.old
        /\ m.ks[j.slot] = mem[c].ks[q.slot] /\ m.ks[j.old] = mem[c].ks[q.old]
    BY <1>1, <1>3, <1>5, <2>2, <2>3, <2>6
  <2> QED
    BY <1>5, <2>2, <2>4, <2>6, <2>7, <2>8, <2>9, StoredChange DEF g
<1>6. CASE /\ q.old # AnyOne /\ ~q.swap
           /\ mem' = [mem EXCEPT ![c] = g] /\ Go(c, q, "destroy")
  <2> DEFINE j == [q EXCEPT !.at = "destroy"]
  <2>1. /\ j \in Jobs /\ j.at = "destroy" /\ j.slot = q.slot /\ j.old = q.old /\ j.pass = q.pass
        /\ j.key = q.key
    BY <1>2 DEF Jobs
  <2>2. j.swap = q.swap
    BY <1>2 DEF Jobs
  <2>3. mem' = [mem EXCEPT ![c] = g] /\ pc' = [pc EXCEPT ![c] = j]
    BY <1>6 DEF Go
  <2> HIDE DEF j
  <2>4. g = Exchanged(g, j)
    BY <1>6, <2>2 DEF Exchanged
  <2>5. /\ {j.slot, j.old} = {q.slot, q.old} /\ j.slot # j.old
        /\ (IF j.swap THEN j.slot ELSE j.old) = q.old
        /\ g.ks[j.slot] = mem[c].ks[q.slot] /\ g.ks[j.old] = mem[c].ks[q.old] /\ g.seq = g.seq
    BY <1>1, <1>3, <1>6, <2>1, <2>2
  <2> QED
    BY <1>1, <1>6, <2>1, <2>3, <2>4, <2>5, StoredChange
<1>7. CASE /\ q.old = AnyOne /\ q.newkey
           /\ mem' = [mem EXCEPT ![c] = LUKS2_digests_erase_unused(
                    update_volume_key_segment_digest(g, LUKS2_digest_by_keyslot(g, q.slot)))]
           /\ pc' = [pc EXCEPT ![c] = WriteJob(AnyOne, {}, TRUE)]
  <2> DEFINE e == LUKS2_digest_by_keyslot(g, q.slot)
             h == update_volume_key_segment_digest(g, e)
             m == LUKS2_digests_erase_unused(h)
             j == WriteJob(AnyOne, {}, TRUE)
  <2>1. e \in DigestsOf(g)
    <3>1. q.slot \in SlotsOf(g) /\ g.ks[q.slot].type = "luks2" /\ LUKS2_keyslots_validate(g)
      BY <1>1, <1>2 DEF SlotsOf, LUKS2_hdr_validate
    <3> HIDE DEF g
    <3> QED
      BY <1>1, <3>1, OneDigest
  <2>2. mem' = [mem EXCEPT ![c] = m] /\ pc' = [pc EXCEPT ![c] = j]
    BY <1>7
  <2> HIDE DEF g, e
  <2>3. /\ h \in Header /\ h.seq = g.seq /\ h.ks = g.ks /\ h.tk = g.tk /\ LUKS2_hdr_validate(h)
        /\ \A K : HdrTold(g, K) => HdrTold(h, K)
        /\ \A n : HdrSalted(g, n) => HdrSalted(h, n)
    BY <1>1, <2>1, SegmentValid
  <2> HIDE DEF h
  <2>4. m \in Header /\ m.seq = h.seq /\ m.ks = h.ks /\ m.tk = h.tk
    BY <2>3, EraseIs
  <2>5. LUKS2_hdr_validate(m) /\ HdrSalted(m, salt) /\ \A K \in Tables : Told(K) => HdrTold(m, K)
    BY <1>1, <2>3, EraseKeeps
  <2>6. j \in Writes /\ j.at = "write" /\ j.tok = AnyOne
    BY DEF Writes, WriteJob
  <2> HIDE DEF m, j
  <2>7. mem'[c] = m /\ pc'[c] = j /\ m # NoHdr
    BY <2>2, <2>4, NoHdrIs DEF TypePart
  <2>8. ~Storing(c)' /\ ~Removing(c)' /\ ~Keeping(c)' /\ ~Doomer(c)' /\ OwedAfter(c)' /\ JobOK(c)'
    BY <2>6, <2>7 DEF Storing, Removing, Keeping, Doomer, OwedAfter, JobOK
  <2>9. MemOK(c)'
    <3>1. \A k \in SlotsOf(disk') : m.ks[k] # None /\ SameSlot(m.ks[k], disk'.ks[k])
      BY <1>1, <2>3, <2>4 DEF SlotsOf, SameSlot, SameArea
    <3>2. m.tk = disk'.tk
      BY <1>1, <2>3, <2>4
    <3>3. WritesHeader(c)'
      BY <2>6, <2>7, <3>1, <3>2 DEF WritesHeader, SlotsOf
    <3> QED
      BY <2>6, <2>7, <2>8, <3>3 DEF MemOK
  <2>10. Steps(c, m, j)
    <3>1. lock \in {c, NoOne} /\ lock' \in {c, NoOne} /\ lock' # c /\ j.at \notin {"commit", "destroyed"}
      BY <1>1, <2>6, Constants
    <3>2. salt' \in Nat /\ salt <= salt' /\ faults' \in Nat /\ faults <= faults' /\ fresh' \subseteq Ctx
      BY <1>1, TypesAre DEF TypePart, KeyslotsTypeOK
    <3>3. m.seq <= disk'.seq
      <4>1. m.seq = disk'.seq /\ m.seq \in Nat
        BY <1>1, <2>3, <2>4, FieldsAre
      <4> QED
        BY <4>1
    <3>4. m \in Header \cup {NoHdr} /\ j \in Resting \cup Jobs \cup Writes /\ HdrSalted(m, salt')
      BY <1>1, <2>4, <2>5, <2>6
    <3> QED
      BY <2>2, <2>5, <2>8, <2>9, <3>1, <3>2, <3>3, <3>4 DEF Steps
  <2>11. PICK K \in Tables : Told(K)
    BY DEF ToldPart
  <2>12. /\ disk' \in Header /\ disk'.seq = disk.seq + 1 /\ LUKS2_hdr_validate(disk)'
         /\ HdrSalted(disk', salt') /\ HdrTold(disk', K) /\ HdrTold(m, K) /\ lock \in {c, NoOne}
         /\ UNCHANGED <<area, backup>>
    <3>1. LUKS2_hdr_validate(disk')
      BY <1>1
    <3>2. LUKS2_hdr_validate(disk)'
      BY <3>1 DEF LUKS2_hdr_validate, JsonSize, hdr_validate_areas, LUKS2_keyslots_validate,
                  SlotsOf, DigestsOf, TokensOf
    <3> QED
      BY <1>1, <2>5, <2>11, <3>2
  <2>13. \A x \in owed' : HeldBy(disk', area, x,
                IF Doomer(c)' THEN x.slots \ {Doomed(c)'} ELSE x.slots)
    BY <1>1, <2>8
  <2> QED
    BY <1>1, <2>8, <2>10, <2>11, <2>12, <2>13, NewDisk
<1>8. CASE q.old = AnyOne /\ ~q.newkey /\ mem' = [mem EXCEPT ![c] = g] /\ Return(c)
  <2>1. pc' = [pc EXCEPT ![c] = Idle] /\ Idle \in Resting
    BY <1>8 DEF Return, Resting
  <2>2. mem[c] # NoHdr
    BY <1>2, NoHdrIs
  <2>3. /\ LUKS2_hdr_validate(mem[c]) /\ HdrSalted(mem[c], salt)
        /\ \A K \in Tables : Told(K) => HdrTold(mem[c], K)
    BY <2>2, MemGood
  <2>4. /\ faults' \in Nat /\ faults <= faults' /\ lock \in {c, NoOne}
        /\ UNCHANGED <<area, backup, salt, fresh>>
        /\ \A e \in owed' : HeldBy(mem[c], area, e, e.slots)
    BY <1>1, TypesAre DEF HeldBy
  <2> QED
    BY <1>1, <1>2, <1>8, <2>1, <2>3, <2>4, CommitRest
<1> QED
  BY <1>4, <1>5, <1>6, <1>7, <1>8

(* What is left when a keyslot is destroyed.                               *)
LEMMA DestroyHeld ==
    ASSUME KeyslotsInv, NEW c \in Ctx, pc[c].at = "destroyed"
    PROVE  LET h == LUKS2_digests_erase_unused(mem[c])  j == pc[c] IN
           /\ lock = c /\ mem[c] # NoHdr /\ j \in Jobs /\ j.old \in Slot /\ j.slot \in Slot /\ JobOK(c)
           /\ h \in Header /\ LUKS2_hdr_validate(h) /\ HdrSalted(h, salt)
           /\ \A K \in Tables : Told(K) => HdrTold(h, K)
           /\ \A e \in owed : HeldBy(h, area, e, e.slots)
           /\ faults = 0 /\ backup = NoHdr => \A u \in 1..Units : area[u] # Junk =>
                 \E k \in SlotsOf(h) : u \in Span(h.ks[k]) /\ h.ks[k].salt = area[u][1]
           /\ \A t \in Token : TokenSlots(h, t) = TokenSlots(disk, t) \ {j.old}
<1> USE DEF KeyslotsInv
<1> DEFINE h == LUKS2_digests_erase_unused(mem[c])
           j == pc[c]
           x == Exchanged(disk, j)
<1>1. lock = c /\ Synced(c)
  BY DEF SeqPart
<1>2. MemOK(c) /\ OwedAfter(c) /\ JobOK(c)
  BY <1>1 DEF MemPart, OwedPart, JobPart
<1>3. mem[c] # NoHdr /\ mem[c] = Wiped(x, j.old)
  BY <1>2 DEF JobOK, Idle, MemOK
<1>4. /\ mem[c] \in Header /\ LUKS2_hdr_validate(mem[c]) /\ HdrSalted(mem[c], salt)
      /\ \A K \in Tables : Told(K) => HdrTold(mem[c], K)
  BY <1>3, MemGood
<1>5. /\ j \in Jobs /\ j.slot \in Slot /\ j.old \in Slot /\ j.swap \in BOOLEAN
      /\ x \in Header /\ x.tk = disk.tk
      /\ x.ks[j.old] = disk.ks[Doomed(c)] /\ Doomed(c) \in {j.old, j.slot}
      /\ j.swap => x.ks[j.slot] = disk.ks[j.old] /\ Doomed(c) = j.slot /\ j.slot # j.old
      /\ ~j.swap => x = disk /\ Doomed(c) = j.old
      /\ \A i \in Slot \ {j.old, j.slot} : x.ks[i] = disk.ks[i]
  BY <1>2, ExchangedIs
<1> HIDE DEF x
<1>6. /\ mem[c].ks[j.old] = None /\ \A i \in Slot \ {j.old} : mem[c].ks[i] = x.ks[i]
      /\ \A t \in Token : x.tk[t] = None => mem[c].tk[t] = None
      /\ \A t \in Token : x.tk[t] # None =>
            mem[c].tk[t] # None /\ mem[c].tk[t].keyslots = x.tk[t].keyslots \ {j.old}
  <2> DEFINE w == Wiped(x, j.old)
  <2>1. /\ w.ks[j.old] = None /\ \A i \in Slot \ {j.old} : w.ks[i] = x.ks[i]
        /\ \A t \in Token : x.tk[t] = None => w.tk[t] = None
        /\ \A t \in Token : x.tk[t] # None =>
            w.tk[t] # None /\ w.tk[t].keyslots = x.tk[t].keyslots \ {j.old}
    <3> HIDE DEF j
    <3> QED
      BY <1>5, WipedIs
  <2> QED
    BY <1>3, <2>1
<1>7. h \in Header /\ h.ks = mem[c].ks /\ h.tk = mem[c].tk
  BY <1>4, EraseIs
<1>8. /\ LUKS2_hdr_validate(h) /\ HdrSalted(h, salt)
      /\ \A K \in Tables : Told(K) => HdrTold(h, K)
  BY <1>4, EraseKeeps
<1> HIDE DEF h, j
<1>9. /\ \A i \in Slot \ {j.old, j.slot} : h.ks[i] = disk.ks[i]
      /\ j.swap => h.ks[j.slot] = disk.ks[j.old] /\ Doomed(c) = j.slot
      /\ ~j.swap => Doomed(c) = j.old /\ \A i \in Slot \ {j.old} : h.ks[i] = disk.ks[i]
  BY <1>5, <1>6, <1>7
<1>10. /\ disk.ks[Doomed(c)] # None /\ \A u \in Span(disk.ks[Doomed(c)]) : area[u] = Junk
  BY DEF AreaPart, AreaOK
<1>11. ASSUME NEW e, NEW k \in Slot, Carries(disk.ks[k], area, e)
       PROVE  k # Doomed(c) /\ k \in SlotsOf(disk)
  <2>1. k \in SlotsOf(disk)
    BY <1>11 DEF Carries, SlotsOf
  <2>2. PICK u : u \in Span(disk.ks[k])
    BY <2>1, TypesAre, FieldsAre, SpanIs
  <2>3. PICK p \in e.passes : area[u] = <<disk.ks[k].salt, p, e.key>>
    BY <1>11, <2>2 DEF Carries
  <2>4. area[u] # Junk
    BY <2>3 DEF Junk
  <2> QED
    BY <1>10, <2>1, <2>2, <2>4
<1>12. ASSUME NEW e \in owed
       PROVE  HeldBy(h, area, e, e.slots)
  <2>1. HeldBy(disk, area, e, e.slots \ Dooms) /\ e.slots \subseteq Slot
    BY TypesAre DEF OwedPart, Promises
  <2>2. PICK k \in e.slots : Carries(disk.ks[k], area, e)
    BY <2>1 DEF HeldBy
  <2>3. k # Doomed(c) /\ k \in Slot
    BY <1>11, <2>1, <2>2
  <2>4. CASE ~j.swap
    <3>1. h.ks[k] = disk.ks[k]
      BY <1>9, <2>3, <2>4
    <3> QED
      BY <2>2, <3>1 DEF HeldBy
  <2>5. CASE j.swap
    <3>1. {j.old, j.slot} \subseteq e.slots \/ HeldBy(disk, area, e, e.slots \ {j.old, j.slot})
      <4>1. Removing(c) /\ Changing(c)
        BY <1>5, <2>5 DEF Removing, Changing, j
      <4> QED
        BY <1>2, <4>1 DEF OwedAfter, j
    <3>2. CASE HeldBy(disk, area, e, e.slots \ {j.old, j.slot})
      <4>1. PICK i \in e.slots \ {j.old, j.slot} : Carries(disk.ks[i], area, e)
        BY <3>2 DEF HeldBy
      <4>2. h.ks[i] = disk.ks[i]
        BY <1>9, <2>1, <4>1
      <4> QED
        BY <4>1, <4>2 DEF HeldBy
    <3>3. CASE {j.old, j.slot} \subseteq e.slots
      <4>1. CASE k = j.old
        <5>1. Carries(h.ks[j.slot], area, e)
          BY <1>9, <2>2, <2>5, <4>1
        <5> QED
          BY <3>3, <5>1 DEF HeldBy
      <4>2. CASE k # j.old
        <5>1. h.ks[k] = disk.ks[k]
          BY <1>9, <2>3, <2>5, <4>2
        <5> QED
          BY <2>2, <5>1 DEF HeldBy
      <4> QED
        BY <4>1, <4>2
    <3> QED
      BY <3>1, <3>2, <3>3
  <2> QED
    BY <2>4, <2>5
<1>13. ASSUME faults = 0, backup = NoHdr, NEW u \in 1..Units, area[u] # Junk
       PROVE  \E k \in SlotsOf(h) : u \in Span(h.ks[k]) /\ h.ks[k].salt = area[u][1]
  <2>1. \A y \in Ctx : pc[y].at # "commit"
    <3>1. \A y \in Ctx : pc[y].at = "commit" => y = c
      BY <1>1 DEF SeqPart
    <3> QED
      BY <3>1
  <2>2. PICK k \in SlotsOf(disk) : u \in Span(disk.ks[k]) /\ disk.ks[k].salt = area[u][1]
    BY <1>13, <2>1 DEF GonePart
  <2>3. k # Doomed(c) /\ k \in Slot /\ disk.ks[k] # None
    BY <1>10, <1>13, <2>2 DEF SlotsOf
  <2>4. CASE k = j.old
    <3>1. j.swap
      BY <1>9, <2>3, <2>4
    <3>2. h.ks[j.slot] = disk.ks[k] /\ j.slot \in SlotsOf(h)
      BY <1>5, <1>9, <2>3, <2>4, <3>1 DEF SlotsOf
    <3> QED
      BY <2>2, <3>2
  <2>5. CASE k # j.old
    <3>1. h.ks[k] = disk.ks[k]
      BY <1>5, <1>9, <2>3, <2>5
    <3>2. k \in SlotsOf(h)
      BY <2>3, <3>1 DEF SlotsOf
    <3> QED
      BY <2>2, <3>1, <3>2
  <2> QED
    BY <2>4, <2>5
<1>14. \A t \in Token : TokenSlots(h, t) = TokenSlots(disk, t) \ {j.old}
  BY <1>5, <1>6, <1>7 DEF TokenSlots
<1> QED
  BY <1>1, <1>2, <1>3, <1>5, <1>7, <1>8, <1>12, <1>13, <1>14 DEF h, j

(* The commit of a header without the destroyed keyslot; what was changed  *)
(* is promised for the new passphrase only.                                *)
LEMMA CommitDestroyHolds ==
    ASSUME KeyslotsInv, NEW c \in Ctx, CommitDestroy(c)
    PROVE  KeyslotsInv'
<1> USE DEF KeyslotsInv
<1> DEFINE h == LUKS2_digests_erase_unused(mem[c])
           j == pc[c]
<1>1. j.at = "destroyed" /\ lock' = NoOne /\ UNCHANGED <<area, backup, fresh, salt, faults>>
  BY DEF CommitDestroy, counters
<1>2. /\ lock = c /\ mem[c] # NoHdr /\ j \in Jobs /\ j.old \in Slot /\ j.slot \in Slot /\ JobOK(c)
      /\ h \in Header /\ LUKS2_hdr_validate(h) /\ HdrSalted(h, salt)
      /\ \A K \in Tables : Told(K) => HdrTold(h, K)
      /\ \A e \in owed : HeldBy(h, area, e, e.slots)
      /\ faults = 0 /\ backup = NoHdr => \A u \in 1..Units : area[u] # Junk =>
            \E k \in SlotsOf(h) : u \in Span(h.ks[k]) /\ h.ks[k].salt = area[u][1]
      /\ \A t \in Token : TokenSlots(h, t) = TokenSlots(disk, t) \ {j.old}
  BY <1>1, DestroyHeld
<1> DEFINE Over(e) == /\ j.slot # j.old /\ {j.old, j.slot} \subseteq e.slots
                      /\ j.key \in LUKS2_open_and_verify(h, j.slot, j.pass)
<1>3. /\ disk' = Committed(h) /\ mem' = [mem EXCEPT ![c] = Committed(h)]
      /\ owed' = {IF Over(e) THEN Promise(j) ELSE e : e \in owed}
      /\ asked' = [t \in Token |-> asked[t] \ {j.old}]
      /\ pc' = [pc EXCEPT ![c] = Idle]
  BY <1>2, Zenon DEF CommitDestroy, Return
<1> HIDE DEF h
<1>4. /\ disk'.ks = h.ks /\ SlotsOf(disk') = SlotsOf(h) /\ \A t : TokenSlots(disk', t) = TokenSlots(h, t)
  BY <1>2, <1>3, CommittedIs, CommittedKeeps, SeqsAre
<1>5. asked \in [Token -> SUBSET Slot] /\ owed \subseteq Promises /\ faults \in Nat
  BY TypesAre DEF TypePart, KeyslotsTypeOK
<1>6. asked' \in [Token -> SUBSET Slot]
  BY <1>3, <1>5
<1>7. ASSUME NEW e \in owed'
      PROVE  e \in Promises /\ HeldBy(h, area, e, e.slots)
  <2>1. PICK f \in owed : e = IF Over(f) THEN Promise(j) ELSE f
    BY <1>3, Zenon
  <2>2. CASE ~Over(f)
    <3>1. e = f
      BY <2>1, <2>2, Zenon
    <3> QED
      BY <1>2, <1>5, <3>1
  <2>3. CASE Over(f)
    <3>1. e = Promise(j)
      BY <2>1, <2>3, Zenon
    <3>2. j.key \in Key /\ j.pass \in Pass
      BY <1>1, <1>2, <2>3 DEF JobOK, Removing, Changing
    <3>3. e \in Promises /\ e.slots = {j.slot} /\ e.passes = {j.pass} /\ e.key = j.key
      BY <1>2, <3>1, <3>2 DEF Promise, Promises
    <3>4. Carries(h.ks[j.slot], area, e)
      BY <2>3, <3>3 DEF Carries, LUKS2_open_and_verify
    <3> QED
      BY <3>3, <3>4 DEF HeldBy
  <2> QED
    BY <2>2, <2>3
<1>8. GonePart'
  <2> SUFFICES ASSUME faults' = 0, backup' = NoHdr, NEW u \in 1..Units, area'[u] # Junk
               PROVE  \E k \in SlotsOf(disk') : u \in Span(disk'.ks[k]) /\ disk'.ks[k].salt = area'[u][1]
    BY DEF GonePart, SlotsOf
  <2>1. PICK k \in SlotsOf(h) : u \in Span(h.ks[k]) /\ h.ks[k].salt = area[u][1]
    BY <1>1, <1>2
  <2> QED
    BY <1>1, <1>4, <2>1
<1>9. AskedPart'
  <2> SUFFICES ASSUME faults' = 0
               PROVE  /\ \A t \in Token : asked'[t] = TokenSlots(disk', t)
                      /\ backup' # NoHdr => \A t \in Token : backup'.asked[t] = TokenSlots(backup'.hdr, t)
    BY DEF AskedPart, TokenSlots
  <2>1. faults = 0
    BY <1>1
  <2>2. \A t \in Token : asked[t] = TokenSlots(disk, t)
    BY <2>1 DEF AskedPart
  <2>3. backup' # NoHdr => \A t \in Token : backup'.asked[t] = TokenSlots(backup'.hdr, t)
    BY <1>1, <2>1 DEF AskedPart
  <2> QED
    BY <1>2, <1>3, <1>4, <2>2, <2>3
<1>10. /\ Idle \in Resting /\ faults' \in Nat /\ faults <= faults' /\ owed' \subseteq Promises
       /\ UNCHANGED <<area, backup, salt, fresh>> /\ lock \in {c, NoOne}
  BY <1>1, <1>2, <1>5, <1>7 DEF Resting
<1> QED
  BY <1>1, <1>2, <1>3, <1>6, <1>7, <1>8, <1>9, <1>10, CommitRest

(* The header could not be written, or was written and the call fails. The *)
(* context reads the header again: what it has in memory would pass for    *)
(* current after the next commit of some other context.                    *)
LEMMA HeaderErrorHolds ==
    ASSUME KeyslotsInv, NEW c \in Ctx, HeaderError(c), Careless = {}
    PROVE  KeyslotsInv'
<1> USE DEF KeyslotsInv
<1> DEFINE h == IF pc[c].at = "destroyed" THEN LUKS2_digests_erase_unused(mem[c]) ELSE mem[c]
           r == [at |-> "reload"]
<1>1. /\ \/ pc[c].at \in {"commit", "destroyed"}
         \/ pc[c].at = "write" /\ Locked(c)
      /\ faults' = faults + 1
      /\ disk' \in {disk, Committed(h)} /\ mem' = [mem EXCEPT ![c] = Committed(h)]
      /\ pc' = [pc EXCEPT ![c] = r] /\ lock' = NoOne
      /\ UNCHANGED <<area, backup, owed, asked, fresh, salt>>
  BY DEF HeaderError, Fault, Fail, promises
<1>2. /\ h \in Header /\ LUKS2_hdr_validate(h) /\ HdrSalted(h, salt)
      /\ \A K \in Tables : Told(K) => HdrTold(h, K)
      /\ \A e \in owed : HeldBy(h, area, e, e.slots)
      /\ lock \in {c, NoOne}
  <2>1. CASE pc[c].at = "destroyed"
    BY <2>1, DestroyHeld
  <2>2. CASE pc[c].at = "commit"
    <3>1. /\ lock = c /\ mem[c] \in Header
          /\ \A e, S : S \subseteq Slot /\ HeldBy(disk, area, e, S) => HeldBy(mem[c], area, e, S \ {pc[c].slot})
      BY <2>2, StoreHeld
    <3>2. mem[c] # NoHdr
      BY <3>1, NoHdrIs
    <3>3. \A e \in owed : HeldBy(mem[c], area, e, e.slots)
      <4> SUFFICES ASSUME NEW e \in owed PROVE HeldBy(mem[c], area, e, e.slots)
        OBVIOUS
      <4>1. HeldBy(disk, area, e, e.slots \ Dooms) /\ e.slots \ Dooms \subseteq Slot
        BY TypesAre DEF OwedPart, Promises
      <4>2. HeldBy(mem[c], area, e, (e.slots \ Dooms) \ {pc[c].slot})
        BY <3>1, <4>1
      <4> QED
        BY <4>2 DEF HeldBy
    <3>4. h = mem[c]
      BY <2>2
    <3> QED
      BY <3>1, <3>2, <3>3, <3>4, MemGood
  <2>3. CASE pc[c].at = "write" /\ Locked(c)
    <3>1. mem[c] # NoHdr /\ \A e \in owed : HeldBy(mem[c], area, e, e.slots)
      BY <2>3, WriteHeld
    <3>2. h = mem[c] /\ lock = NoOne
      BY <2>3 DEF Locked
    <3> QED
      BY <3>1, <3>2, MemGood
  <2> QED
    BY <1>1, <2>1, <2>2, <2>3
<1> HIDE DEF h
<1>3. /\ faults' \in Nat /\ faults <= faults' /\ faults' > 0 /\ r \in Resting /\ r # Idle
      /\ fresh' \subseteq Ctx /\ owed' \subseteq Promises /\ asked' \in [Token -> SUBSET Slot]
      /\ \A e \in owed' : HeldBy(h, area, e, e.slots)
  BY <1>1, <1>2, TypesAre DEF TypePart, KeyslotsTypeOK, Resting, Idle
<1>4. CASE disk' = Committed(h)
  <2>1. GonePart' /\ AskedPart'
    BY <1>3 DEF GonePart, AskedPart
  <2>2. UNCHANGED <<area, backup, salt, fresh>>
    BY <1>1
  <2> QED
    BY <1>1, <1>2, <1>3, <1>4, <2>1, <2>2, CommitRest
<1>5. CASE disk' = disk
  <2> DEFINE g == Committed(h)
  <2>1. g \in Header /\ LUKS2_hdr_validate(g) /\ HdrSalted(g, salt)
        /\ \A K \in Tables : Told(K) => HdrTold(g, K)
    BY <1>2, CommittedIs, CommittedKeeps, SeqsAre
  <2>2. g # NoHdr
    BY <2>1, NoHdrIs
  <2>3. mem' = [mem EXCEPT ![c] = g] /\ UNCHANGED <<disk, backup, asked, area, owed, salt>>
        /\ lock' = IF lock = c THEN NoOne ELSE lock
    BY <1>1, <1>2, <1>5
  <2> HIDE DEF g, r
  <2>4. g \in Header \cup {NoHdr} /\ pc' = [pc EXCEPT ![c] = r]
    BY <1>1, <2>1
  <2> QED
    BY <1>3, <2>1, <2>2, <2>3, <2>4, Rest
<1> QED
  BY <1>1, <1>4, <1>5

-----------------------------------------------------------------------------
(* The theorems                                                            *)

(* LUKS2_generate_hdr makes a valid header.                                *)
LEMMA FormattedIs ==
    /\ Formatted \in Header /\ Formatted.seq = 1
    /\ SlotsOf(Formatted) = {} /\ TokensOf(Formatted) = {}
    /\ DigestsOf(Formatted) = {Min(Digest)} /\ Formatted.dg[Min(Digest)].segment
    /\ Formatted.dg[Min(Digest)].keyslots = {}
    /\ \A t \in Token : Formatted.tk[t] = None
    /\ LUKS2_hdr_validate(Formatted)
<1> DEFINE d0 == Min(Digest)
           r == [type |-> "pbkdf2", key |-> FirstKey, keyslots |-> {}, segment |-> TRUE]
           D == [d \in Digest |-> IF d = d0 THEN r ELSE None]
<1>1. d0 \in Digest
  BY Constants, MinIs
<1>2. r \in DigestRecords /\ r.keyslots = {} /\ r.segment
  BY Constants DEF DigestRecords
<1>3. r # None
  BY <1>2, NoneIs
<1>4. /\ Formatted.seq = 1 /\ Formatted.ks = [k \in Slot |-> None]
      /\ Formatted.tk = [t \in Token |-> None] /\ Formatted.dg = D
  BY DEF Formatted
<1> HIDE DEF r, d0
<1>5. D \in [Digest -> {None} \cup DigestRecords] /\ D[d0] = r
      /\ \A d \in Digest : D[d] # None <=> d = d0
  BY <1>1, <1>2, <1>3
<1>6. Formatted \in Header
  <2>1. Formatted = [seq |-> 1, ks |-> [k \in Slot |-> None], tk |-> [t \in Token |-> None], dg |-> D]
    BY DEF Formatted, d0, r
  <2> HIDE DEF D
  <2> QED
    BY <1>5, <2>1, HeaderIs
<1>7. SlotsOf(Formatted) = {} /\ TokensOf(Formatted) = {}
  BY <1>4 DEF SlotsOf, TokensOf
<1>8. DigestsOf(Formatted) = {d0}
  BY <1>1, <1>4, <1>5 DEF DigestsOf
<1>9. Formatted.dg[d0].keyslots = {} /\ Formatted.dg[d0].segment
  BY <1>2, <1>4, <1>5
<1>10. JsonSize(Formatted) <= JsonMax
  <2>1. Cardinality(SlotsOf(Formatted)) = 0 /\ Cardinality(TokensOf(Formatted)) = 0
    BY <1>7, FS_EmptySet
  <2>2. Cardinality(DigestsOf(Formatted)) = 1
    BY <1>8, FS_Singleton
  <2> QED
    BY <2>1, <2>2, Constants DEF JsonSize
<1>11. LUKS2_hdr_validate(Formatted)
  BY <1>7, <1>8, <1>9, <1>10 DEF LUKS2_hdr_validate, hdr_validate_areas, LUKS2_keyslots_validate
<1> QED
  BY <1>4, <1>6, <1>7, <1>8, <1>9, <1>11 DEF d0

(* The invariant holds after a format.                                     *)
LEMMA InitHolds ==
    ASSUME KeyslotsInit
    PROVE  KeyslotsInv
<1> DEFINE K == [n \in Nat |-> <<"none", "none">>]
<1>1. /\ disk = Formatted /\ area = [u \in 1..Units |-> Junk] /\ fresh \subseteq Ctx
      /\ mem = [c \in Ctx |-> IF c \in fresh THEN Formatted ELSE NoHdr]
      /\ pc = [c \in Ctx |-> Idle] /\ lock = NoOne /\ backup = NoHdr
      /\ owed = {} /\ asked = [t \in Token |-> {}] /\ salt = 0 /\ faults = 0
  BY DEF KeyslotsInit
<1>2. \A c \in Ctx : pc[c] = Idle /\ pc[c].at = "idle" /\ mem[c] \in {Formatted, NoHdr}
  BY <1>1 DEF Idle
<1>3. area \in Areas /\ \A u \in 1..Units : area[u] = Junk
  BY <1>1 DEF Areas
<1>4. Formatted # NoHdr /\ NoHdr.seq = 0 /\ Formatted.seq = 1
  BY FormattedIs, NoHdrIs
<1>5. TypePart
  <2>1. mem \in [Ctx -> Header \cup {NoHdr}]
    BY <1>1, FormattedIs
  <2>2. \A c \in Ctx : mem[c] = NoHdr \/ mem[c] \in Header
    BY <1>2, FormattedIs
  <2>3. pc \in [Ctx -> Resting \cup Jobs \cup Writes]
    BY <1>1 DEF Resting
  <2>4. KeyslotsTypeOK
    BY <1>1, <1>3, <2>2, FormattedIs DEF KeyslotsTypeOK, Areas
  <2> QED
    BY <1>1, <2>1, <2>3, <2>4 DEF TypePart
<1>6. JobPart
  BY <1>2 DEF JobPart, JobOK, Storing, Removing
<1>7. SeqPart
  <2>1. \A c \in Ctx : mem[c].seq <= disk.seq
    BY <1>1, <1>2, <1>4
  <2> QED
    BY <1>1, <1>2, <1>4, <2>1, Constants DEF SeqPart
<1>8. ValidPart
  BY <1>1, <1>2, FormattedIs DEF ValidPart
<1>9. MemPart
  <2>1. \A c \in Ctx : Synced(c) => mem[c] = disk
    BY <1>1, <1>2, <1>4 DEF Synced
  <2> QED
    BY <1>2, <2>1 DEF MemPart, MemOK, Storing
<1>10. SaltPart
  BY <1>1, <1>2, <1>3, FormattedIs DEF SaltPart, HdrSalted, AreaSalted
<1>11. ToldPart
  <2>1. K \in Tables
    BY DEF Tables
  <2>2. Told(K)
    BY <1>1, <1>2, <1>3, FormattedIs DEF Told, HdrTold, AreaTold, Keeping, Storing, Removing
  <2> QED
    BY <2>1, <2>2 DEF ToldPart
<1>12. AreaPart
  BY <1>2 DEF AreaPart, AreaOK
<1>13. OwedPart
  BY <1>1, <1>2 DEF OwedPart, OwedAfter, Doomer
<1>14. GonePart
  BY <1>3 DEF GonePart
<1>15. AskedPart
  BY <1>1, FormattedIs DEF AskedPart, TokenSlots
<1> QED
  BY <1>5, <1>6, <1>7, <1>8, <1>9, <1>10, <1>11, <1>12, <1>13, <1>14, <1>15 DEF KeyslotsInv

(* The start of a call keeps the invariant,                                *)
LEMMA CallHolds ==
    ASSUME KeyslotsInv, NEW c \in Ctx, NewCall(c), Careless = {}
    PROVE  KeyslotsInv'
<1>1. CASE crypt_keyslot_add_by_passphrase(c)
  BY <1>1, AddByPassphraseHolds
<1>2. CASE crypt_keyslot_add_by_keyfile(c)
  BY <1>2, KeyfileHolds
<1>3. CASE crypt_keyslot_add_by_key(c)
  BY <1>3, AddByKeyHolds
<1>4. CASE verify_and_update_segment_digest(c)
  BY <1>4, SegmentHolds
<1>5. CASE crypt_keyslot_change_by_passphrase(c)
  BY <1>5, ChangeHolds
<1>6. CASE crypt_keyslot_destroy(c)
  BY <1>6, DestroyCallHolds
<1>7. CASE LUKS2_keyslot_priority_set(c)
  BY <1>7, PriorityHolds
<1>8. CASE LUKS2_token_create(c)
  BY <1>8, TokenCreateHolds
<1>9. CASE LUKS2_token_assign(c)
  BY <1>9, TokenAssignHolds
<1>10. CASE LUKS2_keyslot_reencrypt_create(c)
  BY <1>10, ReencryptCreateHolds
<1>11. CASE LUKS2_hdr_backup(c)
  BY <1>11, BackupHolds
<1>12. CASE LUKS2_hdr_restore(c)
  BY <1>12, RestoreHolds
<1> QED
  BY <1>1, <1>2, <1>3, <1>4, <1>5, <1>6, <1>7, <1>8, <1>9, <1>10, <1>11, <1>12 DEF NewCall

(* and so does every step,                                                 *)
LEMMA NextHolds ==
    ASSUME KeyslotsInv, KeyslotsNext, Careless = {}
    PROVE  KeyslotsInv'
<1>1. PICK c \in Ctx : \/ Load(c) \/ NewCall(c) \/ Step(c)
                      \/ AreaError(c) \/ HeaderError(c) \/ Die(c) \/ Close(c)
  BY DEF KeyslotsNext
<1>2. CASE Load(c)
  BY <1>2, LoadHolds
<1>3. CASE NewCall(c)
  BY <1>3, CallHolds
<1>4. CASE Step(c)
  <2>1. CASE Reload(c)
    BY <2>1, ReloadHolds
  <2>2. CASE StoreArea(c)
    BY <2>2, StoreAreaHolds
  <2>3. CASE DestroyArea(c)
    BY <2>3, DestroyAreaHolds
  <2>4. CASE WipeArea(c)
    BY <2>4, WipeAreaHolds
  <2>5. CASE Stale(c)
    BY <2>5, StaleHolds
  <2>6. CASE CommitStore(c)
    BY <2>6, CommitStoreHolds
  <2>7. CASE CommitDestroy(c)
    BY <2>7, CommitDestroyHolds
  <2>8. CASE CommitWrite(c)
    BY <2>8, CommitWriteHolds
  <2> QED
    BY <1>4, <2>1, <2>2, <2>3, <2>4, <2>5, <2>6, <2>7, <2>8 DEF Step
<1>5. CASE AreaError(c)
  BY <1>5, AreaErrorHolds
<1>6. CASE HeaderError(c)
  BY <1>6, HeaderErrorHolds
<1>7. CASE Die(c)
  BY <1>7, DieHolds
<1>8. CASE Close(c)
  BY <1>8, CloseHolds
<1> QED
  BY <1>1, <1>2, <1>3, <1>4, <1>5, <1>6, <1>7, <1>8

(* and no step.                                                            *)
LEMMA StutterHolds ==
    ASSUME KeyslotsInv, UNCHANGED vars
    PROVE  KeyslotsInv'
<1>1. UNCHANGED <<disk, area, mem, pc, lock, backup, owed, asked, fresh, salt, faults>>
  BY DEF vars
<1>2. TypePart'
  BY <1>1 DEF KeyslotsInv, TypePart, KeyslotsTypeOK
<1>3. JobPart'
  BY <1>1 DEF KeyslotsInv, JobPart, JobOK, Storing, Removing, Changing, DigestSet, DigestsOf
<1>4. SeqPart' /\ AreaPart' /\ GonePart' /\ AskedPart'
  BY <1>1 DEF KeyslotsInv, SeqPart, Synced, AreaPart, AreaOK, Doomed, GonePart, SlotsOf, AskedPart,
              TokenSlots
<1>5. ValidPart'
  <2>1. LUKS2_hdr_validate(disk) /\ LUKS2_hdr_validate(disk)'
    BY <1>1 DEF KeyslotsInv, ValidPart, LUKS2_hdr_validate, JsonSize, hdr_validate_areas,
                LUKS2_keyslots_validate, SlotsOf, DigestsOf, TokensOf
  <2>2. ASSUME NEW c \in Ctx, mem[c] # NoHdr
        PROVE  LUKS2_hdr_validate(mem[c])'
    <3>1. LUKS2_hdr_validate(mem[c]) /\ mem'[c] = mem[c]
      BY <1>1, <2>2 DEF KeyslotsInv, ValidPart
    <3>2. LUKS2_hdr_validate(mem'[c])
      BY <3>1
    <3> QED
      BY <3>2 DEF LUKS2_hdr_validate, JsonSize, hdr_validate_areas, LUKS2_keyslots_validate,
                  SlotsOf, DigestsOf, TokensOf
  <2>3. ASSUME backup # NoHdr
        PROVE  LUKS2_hdr_validate(backup.hdr)'
    BY <1>1, <2>3 DEF KeyslotsInv, ValidPart, LUKS2_hdr_validate, JsonSize, hdr_validate_areas,
                LUKS2_keyslots_validate, SlotsOf, DigestsOf, TokensOf
  <2> QED
    BY <1>1, <2>1, <2>2, <2>3 DEF ValidPart
<1>6. MemPart'
  <2> SUFFICES ASSUME NEW c \in Ctx, Synced(c) PROVE MemOK(c)'
    BY <1>1 DEF MemPart, Synced
  <2>1. MemOK(c)
    BY DEF KeyslotsInv, MemPart
  <2>2. Stores(c) => Stores(c)'
    BY <1>1 DEF Stores, SlotsOf, SameArea, LUKS2_token_assignment_copy
  <2>3. WritesHeader(c) => WritesHeader(c)'
    BY <1>1 DEF WritesHeader, SlotsOf, TokenSlots
  <2>4. Exchanged(disk, pc[c])' = Exchanged(disk, pc[c])
    BY <1>1 DEF Exchanged, LUKS2_keyslot_swap
  <2>5. Wiped(Exchanged(disk, pc[c]), pc[c].old)' = Wiped(Exchanged(disk, pc[c]), pc[c].old)
    BY <1>1, <2>4 DEF Wiped, luks2_keyslot_wipe
  <2> QED
    BY <1>1, <2>1, <2>2, <2>3, <2>4, <2>5 DEF MemOK, Storing
<1>7. SaltPart'
  BY <1>1 DEF KeyslotsInv, SaltPart, HdrSalted, AreaSalted, SlotsOf
<1>8. ToldPart'
  <2>1. PICK K \in Tables : Told(K)
    BY DEF KeyslotsInv, ToldPart
  <2>2. Told(K)'
    <3>1. HdrTold(disk, K)'
      BY <1>1, <2>1 DEF Told, HdrTold, SlotTold, SlotsOf, DigestSet, DigestsOf
    <3>2. ASSUME NEW c \in Ctx, mem[c] # NoHdr
          PROVE  HdrTold(mem[c], K)'
      BY <1>1, <2>1, <3>2 DEF Told, HdrTold, SlotTold, SlotsOf, DigestSet, DigestsOf
    <3>3. ASSUME backup # NoHdr
          PROVE  HdrTold(backup.hdr, K)'
      BY <1>1, <2>1, <3>3 DEF Told, HdrTold, SlotTold, SlotsOf, DigestSet, DigestsOf
    <3> QED
      BY <1>1, <2>1, <3>1, <3>2, <3>3 DEF Told, AreaTold, Keeping, Storing, Removing, Changing
  <2> QED
    BY <2>1, <2>2 DEF ToldPart, Tables
<1>9. OwedPart'
  BY <1>1 DEF KeyslotsInv, OwedPart, OwedAfter, HeldBy, Carries, Dooms, Doomer, Doomed, Synced,
              Storing, Removing, Changing
<1> QED
  BY <1>2, <1>3, <1>4, <1>5, <1>6, <1>7, <1>8, <1>9 DEF KeyslotsInv

(* The invariant holds for any number of contexts, keyslots, digests,      *)
(* tokens, passphrases, keys, units, calls and faults, if callers assign   *)
(* tokens to keyslots that are there and read the header again after a     *)
(* failed write of it.                                                     *)
THEOREM KeyslotsInvariant == Careless = {} => (KeyslotsSpec => []KeyslotsInv)
<1> SUFFICES ASSUME Careless = {} PROVE KeyslotsSpec => []KeyslotsInv
  OBVIOUS
<1>1. KeyslotsInit => KeyslotsInv
  BY InitHolds
<1>2. KeyslotsInv /\ [KeyslotsNext]_vars => KeyslotsInv'
  BY NextHolds, StutterHolds
<1> QED
  BY <1>1, <1>2, PTL DEF KeyslotsSpec

(* A keyslot that has what is promised opens: its digest and its size are  *)
(* those of the key.                                                       *)
LEMMA HeldHolds ==
    ASSUME KeyslotsInv, NEW e \in owed, NEW S, S \subseteq Slot, HeldBy(disk, area, e, S)
    PROVE  Holds(e, S)
<1>1. PICK k \in S : Carries(disk.ks[k], area, e)
  BY DEF HeldBy
<1>2. PICK p \in e.passes : \A u \in Span(disk.ks[k]) : area[u] = <<disk.ks[k].salt, p, e.key>>
  BY <1>1 DEF Carries
<1>3. disk \in Header /\ k \in SlotsOf(disk) /\ disk.ks[k] # None /\ disk.ks[k].type = "luks2"
  BY <1>1, TypesAre DEF Carries, SlotsOf, KeyslotsInv
<1>4. PICK K \in Tables : Told(K)
  BY DEF KeyslotsInv, ToldPart
<1>5. PICK d \in DigestsOf(disk) : DigestSet(disk, k) = {d} /\ LUKS2_digest_by_keyslot(disk, k) = d
  BY <1>3, OneDigest DEF KeyslotsInv, ValidPart, LUKS2_hdr_validate
<1>6. SlotTold(disk, k, K) /\ AreaTold(area, K)
  BY <1>3, <1>4 DEF Told, HdrTold
<1>7. PICK u \in Span(disk.ks[k]) : u \in 1..Units
  <2>1. disk.ks[k] \in KeyslotRecords
    BY <1>3, FieldsAre
  <2> QED
    BY <1>3, <2>1, SpanIs, SpansFit DEF KeyslotsInv, ValidPart
<1>8. area[u] = <<disk.ks[k].salt, p, e.key>>
  BY <1>2, <1>7
<1>9. K[disk.ks[k].salt] = <<p, e.key>>
  <2>1. area[u] # Junk /\ area[u][1] = disk.ks[k].salt /\ area[u][2] = p /\ area[u][3] = e.key
    BY <1>8 DEF Junk
  <2> QED
    BY <1>6, <1>7, <2>1 DEF AreaTold
<1>10. e.key \in Key /\ disk.ks[k].len = AreaLen[e.key] /\ disk.dg[d].key = e.key
  BY <1>5, <1>6, <1>9 DEF SlotTold
<1>11. d # AnyOne
  BY <1>5, Constants DEF DigestsOf
<1>12. e.key \in LUKS2_open_and_verify(disk, k, p)
  BY <1>2, <1>3, <1>5, <1>10, <1>11 DEF LUKS2_open_and_verify
<1> QED
  BY <1>12 DEF Holds

(* A passphrase that a call has reported to be stored opens its keyslot    *)
(* and gives its key at every moment, whatever other contexts do and       *)
(* whatever call dies or fails half way (LUKS2_keyslot_store,              *)
(* LUKS2_keyslot_wipe, crypt_keyslot_change_by_passphrase), until it is    *)
(* destroyed or overwritten.                                               *)
THEOREM KeyslotsKeepPassphrases == Careless = {} => (KeyslotsSpec => []PassphrasesKept)
<1> SUFFICES ASSUME Careless = {} PROVE KeyslotsSpec => []PassphrasesKept
  OBVIOUS
<1>1. KeyslotsInv => PassphrasesKept
  <2> SUFFICES ASSUME KeyslotsInv, NEW e \in owed PROVE Holds(e, e.slots)
    BY DEF PassphrasesKept
  <2>1. e.slots \subseteq Slot /\ HeldBy(disk, area, e, e.slots \ Dooms)
    BY DEF KeyslotsInv, TypePart, Promises, OwedPart
  <2>2. HeldBy(disk, area, e, e.slots)
    BY <2>1 DEF HeldBy
  <2> QED
    BY <2>1, <2>2, HeldHolds
<1>2. KeyslotsSpec => []KeyslotsInv
  BY KeyslotsInvariant
<1> QED
  BY <1>1, <1>2, PTL

(* Without faults, when no call is between its write of an area and its    *)
(* commit, no key material is left that does not belong to a keyslot: a    *)
(* passphrase that was removed or changed is gone (LUKS2_keyslot_wipe).    *)
THEOREM KeyslotsRevoke == Careless = {} => (KeyslotsSpec => []RevokedGone)
<1> SUFFICES ASSUME Careless = {} PROVE KeyslotsSpec => []RevokedGone
  OBVIOUS
<1>1. KeyslotsInv => RevokedGone
  BY GoneBefore DEF RevokedGone
<1>2. KeyslotsSpec => []KeyslotsInv
  BY KeyslotsInvariant
<1> QED
  BY <1>1, <1>2, PTL

(* An area with the salt of a keyslot has the key of its digest; no area   *)
(* has the salt of a reencrypt keyslot.                                    *)
LEMMA DigestsToldTrue ==
    ASSUME KeyslotsInv
    PROVE  DigestsTell
<1> SUFFICES ASSUME NEW k \in SlotsOf(disk), NEW u \in Span(disk.ks[k]),
                    area[u] # Junk, area[u][1] = disk.ks[k].salt
             PROVE  /\ LUKS2_digest_by_keyslot(disk, k) # AnyOne
                    /\ disk.dg[LUKS2_digest_by_keyslot(disk, k)].key = area[u][3]
  BY DEF DigestsTell
<1>1. disk \in Header /\ k \in Slot /\ disk.ks[k] \in KeyslotRecords /\ disk.ks[k] # None
  BY TypesAre, FieldsAre DEF SlotsOf, KeyslotsInv
<1>2. u \in 1..Units
  BY <1>1, SpansFit DEF KeyslotsInv, ValidPart
<1>3. area[u][1] > 0
  BY <1>2 DEF KeyslotsInv, SaltPart, AreaSalted
<1>4. disk.ks[k].type = "luks2"
  <2>1. disk.ks[k].type = "reencrypt" => disk.ks[k].salt = 0
    BY DEF KeyslotsInv, SaltPart, HdrSalted
  <2> QED
    BY <1>1, <1>3, <2>1 DEF KeyslotRecords
<1>5. PICK d \in DigestsOf(disk) : DigestSet(disk, k) = {d} /\ LUKS2_digest_by_keyslot(disk, k) = d
  BY <1>1, <1>4, OneDigest DEF KeyslotsInv, ValidPart, LUKS2_hdr_validate
<1>6. PICK K \in Tables : Told(K)
  BY DEF KeyslotsInv, ToldPart
<1>7. SlotTold(disk, k, K) /\ K[area[u][1]] = <<area[u][2], area[u][3]>>
  BY <1>2, <1>4, <1>6 DEF Told, HdrTold, AreaTold
<1>8. disk.dg[d].key = area[u][3]
  BY <1>5, <1>7 DEF SlotTold
<1> QED
  BY <1>5, <1>8, Constants DEF DigestsOf

(* The types are right, the digest of a keyslot is the one of the key in   *)
(* its area, and tokens are assigned as the calls that succeeded said      *)
(* (LUKS2_digest_assign, LUKS2_token_assign, LUKS2_token_assignment_copy). *)
THEOREM KeyslotsMetadataTrue == Careless = {} => (KeyslotsSpec => []MetadataTrue)
<1> SUFFICES ASSUME Careless = {} PROVE KeyslotsSpec => []MetadataTrue
  OBVIOUS
<1>1. KeyslotsInv => MetadataTrue
  <2> SUFFICES ASSUME KeyslotsInv PROVE MetadataTrue
    OBVIOUS
  <2>1. TokensAsAsked
    BY DEF KeyslotsInv, AskedPart, TokenSlots, TokensAsAsked
  <2> QED
    BY <2>1, DigestsToldTrue DEF KeyslotsInv, TypePart, MetadataTrue
<1>2. KeyslotsSpec => []KeyslotsInv
  BY KeyslotsInvariant
<1> QED
  BY <1>1, <1>2, PTL
=============================================================================
