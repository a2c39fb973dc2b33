---------------------------- MODULE LUKS2Keyslots ----------------------------
(***************************************************************************)
(* LUKS2 keyslots, digests and tokens: the JSON metadata that several      *)
(* contexts keep in memory and commit to the device, and the binary areas  *)
(* with the key material (lib/luks2/luks2_keyslot*.c, luks2_digest.c,      *)
(* luks2_token.c, luks2_json_format.c, luks2_json_metadata.c and their     *)
(* callers in lib/setup.c).                                                *)
(*                                                                         *)
(* A header commit is one step here: how it gets to the two copies on the  *)
(* device is the subject of LUKS2Header.                                   *)
(***************************************************************************)
EXTENDS Integers, FiniteSets, FiniteSetsExt

CONSTANTS
    Ctx,            \* contexts (struct crypt_device), in one process or more
    Slot,           \* keyslot numbers, 0 .. LUKS2_KEYSLOTS_MAX - 1
    Digest,         \* digest numbers, 0 .. LUKS2_DIGEST_MAX - 1
    Token,          \* token numbers, 0 .. LUKS2_TOKENS_MAX - 1
    Pass, Key,      \* passphrases and volume keys
    AreaLen,        \* units that the area of a key takes
    Units,          \* units of the binary keyslots area
    JsonMax,        \* objects that fit in the JSON area
    FirstKey,       \* the volume key the device was formatted with
    Careless,       \* "assign": tokens are assigned to keyslots that are not
                    \* there; "retry": a context whose header could not be
                    \* written goes on without reading it again
    MaxOps, MaxFaults   \* bounds on API calls, and on deaths and I/O errors

ASSUME KeyslotsConstants ==
    /\ \A S \in {Slot, Digest, Token} : S \subseteq Nat /\ IsFiniteSet(S)
    /\ Digest # {} /\ JsonMax > 0          \* LUKS2_generate_hdr validates its header
    /\ AreaLen \in [Key -> Nat \ {0}]
    /\ {Units, JsonMax, MaxOps, MaxFaults} \subseteq Nat
    /\ FirstKey \in Key /\ Careless \subseteq {"assign", "retry"}
    /\ "no context" \notin Ctx

VARIABLES
    disk,       \* the committed header
    area,       \* the binary keyslots area on the device
    mem,        \* the header each context has in memory
    pc,         \* what each context is doing
    lock,       \* the context with the device write lock
    backup,     \* a header backup file
    owed,       \* what the calls that returned have promised
    asked,      \* assignments of tokens that were asked for
    fresh,      \* contexts that know the volume key since they formatted
    salt,       \* the last salt used
    ops, faults

vars == <<disk, area, mem, pc, lock, backup, owed, asked, fresh, salt, ops,
          faults>>
promises == <<owed, asked>>
counters == <<salt, ops, faults>>

None == [type |-> "none"]
AnyOne == -1               \* CRYPT_ANY_SLOT, CRYPT_ANY_DIGEST
NoOne == "no context"
NoHdr == [seq |-> 0]
Junk == <<>>
Idle == [at |-> "idle"]

-----------------------------------------------------------------------------
(* Reading a header                                                        *)

SlotsOf(h) == {k \in Slot : h.ks[k] # None}
DigestsOf(h) == {d \in Digest : h.dg[d] # None}
TokensOf(h) == {t \in Token : h.tk[t] # None}
Span(s) == s.off .. (s.off + s.len - 1)

LUKS2_digest_by_keyslot(h, k) ==
    LET ds == {d \in DigestsOf(h) : k \in h.dg[d].keyslots}
    IN IF ds = {} THEN AnyOne ELSE Min(ds)

LUKS2_digest_by_segment(h) ==
    LET ds == {d \in DigestsOf(h) : h.dg[d].segment}
    IN IF ds = {} THEN AnyOne ELSE Min(ds)

(* For the default segment; CRYPT_ANY_SEGMENT takes every keyslot.         *)
LUKS2_keyslot_for_segment(h, k) ==
    /\ LUKS2_digest_by_keyslot(h, k) # AnyOne
    /\ LUKS2_digest_by_keyslot(h, k) = LUKS2_digest_by_segment(h)

LUKS2_keyslot_active_count(h) ==
    Cardinality({k \in SlotsOf(h) : LUKS2_keyslot_for_segment(h, k)})

LUKS2_keyslot_find_empty(h) ==
    LET free == Slot \ SlotsOf(h) IN IF free = {} THEN AnyOne ELSE Min(free)

(* The key in keyslot k of header h if passphrase p opens it: the area     *)
(* must have been written for this very salt, and the digest must agree.   *)
LUKS2_open_and_verify(h, k, p) ==
    {v \in Key :
        /\ h.ks[k] # None /\ h.ks[k].type = "luks2"
        /\ h.ks[k].len = AreaLen[v]
        /\ \A u \in Span(h.ks[k]) : area[u] = <<h.ks[k].salt, p, v>>
        /\ LUKS2_digest_by_keyslot(h, k) # AnyOne
        /\ h.dg[LUKS2_digest_by_keyslot(h, k)].key = v}

(* The keyslots a passphrase may open for the default segment, or for any  *)
(* segment: preferred ones, then normal ones, never ignored ones.          *)
LUKS2_keyslot_open(h, slot, p, any) ==
    LET fits == {k \in SlotsOf(h) :
                    /\ slot \in {AnyOne, k}
                    /\ any \/ LUKS2_keyslot_for_segment(h, k)
                    /\ LUKS2_open_and_verify(h, k, p) # {}}
        of(prio) == {k \in fits : h.ks[k].prio = prio}
    IN IF slot # AnyOne THEN fits
       ELSE IF of("prefer") # {} THEN of("prefer") ELSE of("normal")

KeyOf(h, k, p) == CHOOSE v \in Key : v \in LUKS2_open_and_verify(h, k, p)

(* A gap starts at the first unit or behind an area, and reaches to the    *)
(* next area or to the end.                                                *)
GapStarts(h) == {1} \cup {h.ks[k].off + h.ks[k].len : k \in SlotsOf(h)}
GapEnd(h, o) ==
    Min({Units + 1} \cup {h.ks[k].off : k \in {j \in SlotsOf(h) : h.ks[j].off >= o}})

(* The first gap that is large enough.                                     *)
LUKS2_find_area_gap(h, len) ==
    LET fit == {o \in GapStarts(h) : o + len <= GapEnd(h, o)}
    IN IF fit = {} THEN AnyOne ELSE Min(fit)

(* The first one of the largest gaps, for the area of a reencryption:      *)
(* <<offset, length>>.                                                     *)
LUKS2_find_area_max_gap(h) ==
    LET size(o) == GapEnd(h, o) - o
        off == Min({o \in GapStarts(h) : \A g \in GapStarts(h) : size(g) <= size(o)})
    IN <<off, size(off)>>

-----------------------------------------------------------------------------
(* Validation                                                              *)

JsonSize(h) ==
    Cardinality(SlotsOf(h)) + Cardinality(DigestsOf(h)) + Cardinality(TokensOf(h))

hdr_validate_areas(h) ==
    /\ \A k \in SlotsOf(h) :
          h.ks[k].off >= 1 /\ h.ks[k].len > 0 /\ h.ks[k].off + h.ks[k].len <= Units + 1
    /\ \A j, k \in SlotsOf(h) :
          j # k => Span(h.ks[j]) \cap Span(h.ks[k]) = {}

LUKS2_keyslots_validate(h) ==
    \A k \in SlotsOf(h) : h.ks[k].type = "luks2" =>
        Cardinality({d \in DigestsOf(h) : k \in h.dg[d].keyslots}) = 1

LUKS2_hdr_validate(h) ==
    /\ JsonSize(h) <= JsonMax
    /\ \A t \in TokensOf(h) : h.tk[t].keyslots \subseteq SlotsOf(h)
    /\ \A d \in DigestsOf(h) : h.dg[d].keyslots \subseteq SlotsOf(h)
    /\ \E d \in DigestsOf(h) : h.dg[d].segment
    /\ hdr_validate_areas(h)
    /\ LUKS2_keyslots_validate(h)

-----------------------------------------------------------------------------
(* Changing a header in memory                                             *)

LUKS2_digests_erase_unused(h) ==
    [h EXCEPT !.dg = [d \in Digest |->
        IF @[d] # None /\ @[d].keyslots = {} /\ ~@[d].segment THEN None ELSE @[d]]]

(* Mutation: every keyslot is assigned to the digest of the segment.       *)
AssignedToSegment(h, k, d) ==
    [h EXCEPT !.dg[LUKS2_digest_by_segment(h)].keyslots = @ \cup {k}]

LUKS2_digest_assign(h, k, d) == [h EXCEPT !.dg[d].keyslots = @ \cup {k}]

(* The keyslot disappears from every digest and from every token.          *)
luks2_keyslot_wipe(h, k) ==
    [h EXCEPT
        !.dg = [d \in Digest |-> IF h.dg[d] = None THEN None
                                 ELSE [h.dg[d] EXCEPT !.keyslots = @ \ {k}]],
        !.tk = [t \in Token |-> IF h.tk[t] = None THEN None
                                ELSE [h.tk[t] EXCEPT !.keyslots = @ \ {k}]]]

(* Mutation: the new keyslot is not assigned to the tokens of the old one. *)
AssignmentForgotten(h, from, to) == h

LUKS2_token_assignment_copy(h, from, to) ==
    [h EXCEPT !.tk = [t \in Token |->
        IF h.tk[t] # None /\ from \in h.tk[t].keyslots
        THEN [h.tk[t] EXCEPT !.keyslots = @ \cup {to}] ELSE h.tk[t]]]

(* It does not move the references.                                        *)
LUKS2_keyslot_swap(h, j, k) == [h EXCEPT !.ks[j] = h.ks[k], !.ks[k] = h.ks[j]]

(* A digest for key v, in the first free place.                            *)
LUKS2_digest_create(h, v) ==
    [h EXCEPT !.dg[Min(Digest \ DigestsOf(h))] =
        [type |-> "pbkdf2", key |-> v, keyslots |-> {}, segment |-> FALSE]]

update_volume_key_segment_digest(h, e) ==
    [h EXCEPT !.dg = [d \in Digest |-> IF @[d] = None THEN None
                        ELSE [@[d] EXCEPT !.segment = (d = e)]]]

(* alloc or update of luks2_keyslot: NoHdr if there is no room.  The area  *)
(* of a keyslot that is there stays, with its size.                        *)
Prepared(h, k, v) ==
    LET off == LUKS2_find_area_gap(h, AreaLen[v])
        new == [h EXCEPT !.ks[k] = [type |-> "luks2", off |-> off,
                    len |-> AreaLen[v], salt |-> salt + 1, prio |-> "normal"]]
        upd == [h EXCEPT !.ks[k].salt = salt + 1]
        g == IF h.ks[k] = None THEN new ELSE upd
    IN IF \/ h.ks[k] = None /\ off = AnyOne
          \/ h.ks[k] # None /\ (h.ks[k].type # "luks2" \/ h.ks[k].len # AreaLen[v])
          \/ ~LUKS2_hdr_validate(g)
       THEN NoHdr ELSE g

-----------------------------------------------------------------------------
(* The steps of a call                                                     *)

Job(k, v, p) ==
    [at |-> "call", slot |-> k, key |-> v, pass |-> p, old |-> AnyOne,
     swap |-> FALSE, newkey |-> FALSE]
(* A call that only writes the header, and whether it reads it again after *)
(* an error.                                                               *)
WriteJob(t, ks, again) == [at |-> "write", tok |-> t, keyslots |-> ks, again |-> again]
Go(c, job, at) == pc' = [pc EXCEPT ![c] = [job EXCEPT !.at = at]]
Return(c) == pc' = [pc EXCEPT ![c] = Idle]

(* The error path of most calls reads the header again (_luks2_reload).    *)
Fail(c) == pc' = [pc EXCEPT ![c] = [at |-> "reload"]]

Reload(c) ==
    /\ pc[c].at = "reload" /\ lock = NoOne
    /\ mem' = [mem EXCEPT ![c] = disk]
    /\ Return(c)
    /\ UNCHANGED <<disk, area, lock, backup, promises, fresh, counters>>

(* Mutation: the lock is taken and the sequence id is not compared.        *)
LockedAnyway(c) == lock = NoOne

(* LUKS2_device_write_lock: the lock, and the sequence id is the one on    *)
(* the device.                                                             *)
Locked(c) == lock = NoOne /\ mem[c].seq = disk.seq

Written(ks, content) ==
    [u \in 1..Units |-> IF u \in Span(ks) THEN content ELSE area[u]]

(* LUKS2_keyslot_store in memory: the keyslot is allocated or updated, and *)
(* the header validated.                                                   *)
LUKS2_keyslot_store(c, h, job) ==
    LET g == Prepared(h, job.slot, job.key) IN
    IF g = NoHdr
    THEN Fail(c) /\ UNCHANGED <<mem, salt>>
    ELSE /\ mem' = [mem EXCEPT ![c] = g] /\ salt' = salt + 1
         /\ Go(c, job, "store")

(* The keyslot whose area the call is about to write or to wipe.           *)
Target(c) == IF pc[c].at = "destroy" THEN pc[c].old ELSE pc[c].slot

(* What is still promised once that area is touched: everything, but for a *)
(* keyslot that is to be destroyed or overwritten; if it is one of the two *)
(* that another context is using to change a passphrase, nothing is.  What *)
(* the call will destroy in the end counts only for the promise it changes.*)
Holds(e, slots) ==
    \E k \in slots, p \in e.passes : e.key \in LUKS2_open_and_verify(disk, k, p)
Changes(c, e) ==
    /\ pc[c].at = "store" /\ {pc[c].old, pc[c].slot} \subseteq e.slots
    /\ pc[c].pass \in e.passes /\ pc[c].key = e.key
StillOwed(c) ==
    IF \/ pc[c].at = "destroy" /\ pc[c].slot # pc[c].old
       \/ disk.ks[Target(c)] = None
    THEN owed
    ELSE {e \in owed : \/ Target(c) \notin e.slots
                       \/ /\ Holds(e, e.slots \ (IF Changes(c, e) THEN {Target(c)}
                                                  ELSE {Target(c), pc[c].old}))
                          /\ \A x \in Ctx \ {c} : pc[x] = Idle}

(* luks2_keyslot_store: the key material.                                  *)
StoreArea(c) ==
    LET ks == mem[c].ks[pc[c].slot] IN
    /\ pc[c].at = "store" /\ Locked(c)
    /\ lock' = c
    /\ area' = Written(ks, <<ks.salt, pc[c].pass, pc[c].key>>)
    /\ owed' = StillOwed(c)
    /\ pc' = [pc EXCEPT ![c].at = "commit"]
    /\ UNCHANGED <<disk, mem, backup, asked, fresh, counters>>

(* Mutation: the keyslot stays, with an area of no size.                   *)
DestroyEmpties(c) ==
    /\ pc[c].at = "destroy" /\ Locked(c)
    /\ lock' = c
    /\ owed' = StillOwed(c)
    /\ area' = Written(mem[c].ks[pc[c].old], Junk)
    /\ mem' = [mem EXCEPT ![c] = [luks2_keyslot_wipe(@, pc[c].old) EXCEPT
                                    !.ks[pc[c].old].len = 0]]
    /\ pc' = [pc EXCEPT ![c].at = "destroyed"]
    /\ UNCHANGED <<disk, backup, asked, fresh, counters>>

(* Mutation: the keyslot is deleted and its area left as it is.            *)
DestroyKeepsArea(c) ==
    /\ pc[c].at = "destroy" /\ Locked(c)
    /\ lock' = c
    /\ owed' = StillOwed(c) /\ area' = area
    /\ mem' = [mem EXCEPT ![c] =
                [luks2_keyslot_wipe(@, pc[c].old) EXCEPT !.ks[pc[c].old] = None]]
    /\ pc' = [pc EXCEPT ![c].at = "destroyed"]
    /\ UNCHANGED <<disk, backup, asked, fresh, counters>>

(* LUKS2_keyslot_wipe: the area, then the keyslot and what refers to it.   *)
DestroyArea(c) ==
    /\ pc[c].at = "destroy" /\ Locked(c)
    /\ lock' = c
    /\ owed' = StillOwed(c)
    /\ area' = Written(mem[c].ks[pc[c].old], Junk)
    /\ mem' = [mem EXCEPT ![c] =
                [luks2_keyslot_wipe(@, pc[c].old) EXCEPT !.ks[pc[c].old] = None]]
    /\ pc' = [pc EXCEPT ![c].at = "destroyed"]
    /\ UNCHANGED <<disk, backup, asked, fresh, counters>>

(* LUKS2_keyslot_wipe of the area only, before the keyslot is overwritten. *)
WipeArea(c) ==
    /\ pc[c].at = "wipe" /\ Locked(c)
    /\ area' = Written(mem[c].ks[pc[c].slot], Junk)
    /\ owed' = StillOwed(c)
    /\ LUKS2_keyslot_store(c, mem[c], pc[c])
    /\ UNCHANGED <<disk, lock, backup, asked, fresh, ops, faults>>

(* How a call goes on after an error: only crypt_keyslot_destroy and most  *)
(* of the calls that write nothing but the header do not read it again.    *)
Error(c) ==
    IF (IF pc[c].at = "write" THEN ~pc[c].again ELSE pc[c].slot = pc[c].old)
    THEN Return(c) ELSE Fail(c)

(* Some other context has written the header since this one read it.       *)
Stale(c) ==
    /\ pc[c].at \in {"store", "wipe", "destroy", "write"}
    /\ lock = NoOne /\ ~Locked(c)
    /\ Error(c)
    /\ UNCHANGED <<disk, area, mem, lock, backup, promises, fresh, counters>>

Committed(h) == [h EXCEPT !.seq = disk.seq + 1]

(* What follows the commit of a stored keyslot: the old one is destroyed,  *)
(* under the new number if the two were exchanged.                         *)
AfterStore(c) ==
    LET j == pc[c]  h == Committed(mem[c]) IN
    \/ /\ j.old # AnyOne /\ j.swap
       /\ mem' = [mem EXCEPT ![c] = LUKS2_keyslot_swap(h, j.old, j.slot)]
       /\ Go(c, [j EXCEPT !.slot = j.old, !.old = j.slot], "destroy")
    \/ /\ j.old # AnyOne /\ ~j.swap
       /\ mem' = [mem EXCEPT ![c] = h] /\ Go(c, j, "destroy")
    \/ /\ j.old = AnyOne /\ j.newkey
       /\ mem' = [mem EXCEPT ![c] = LUKS2_digests_erase_unused(
                    update_volume_key_segment_digest(h, LUKS2_digest_by_keyslot(h, j.slot)))]
       /\ pc' = [pc EXCEPT ![c] = WriteJob(AnyOne, {}, TRUE)]
    \/ j.old = AnyOne /\ ~j.newkey /\ mem' = [mem EXCEPT ![c] = h] /\ Return(c)

Promise(j) == [slots |-> {j.slot}, passes |-> {j.pass}, key |-> j.key]

CommitStore(c) ==
    LET j == pc[c] IN
    /\ j.at = "commit"
    /\ disk' = Committed(mem[c])
    /\ AfterStore(c)
    /\ owed' = IF j.old = AnyOne THEN owed \cup {Promise(j)} ELSE owed
    /\ asked' = IF j.old = AnyOne THEN asked
                ELSE [t \in Token |-> IF j.old \in asked[t] THEN asked[t] \cup {j.slot}
                                      ELSE asked[t]]
    /\ lock' = NoOne
    /\ UNCHANGED <<area, backup, fresh, counters>>

(* After a change of passphrase only the new one is promised (unless some  *)
(* other call has destroyed or overwritten its keyslot since).             *)
CommitDestroy(c) ==
    LET j == pc[c]  h == LUKS2_digests_erase_unused(mem[c]) IN
    /\ j.at = "destroyed"
    /\ IF LUKS2_hdr_validate(h)
       THEN /\ disk' = Committed(h) /\ mem' = [mem EXCEPT ![c] = Committed(h)]
            /\ owed' = {IF /\ j.slot # j.old /\ {j.old, j.slot} \subseteq e.slots
                           /\ j.key \in LUKS2_open_and_verify(h, j.slot, j.pass)
                        THEN Promise(j) ELSE e : e \in owed}
            /\ asked' = [t \in Token |-> asked[t] \ {j.old}]
            /\ Return(c)
       ELSE /\ mem' = [mem EXCEPT ![c] = h]
            /\ Error(c)
            /\ UNCHANGED <<disk, promises>>
    /\ lock' = NoOne
    /\ UNCHANGED <<area, backup, fresh, counters>>

(* A call that only writes the header.                                     *)
CommitWrite(c) ==
    /\ pc[c].at = "write" /\ Locked(c)
    /\ disk' = Committed(mem[c]) /\ mem' = [mem EXCEPT ![c] = Committed(@)]
    /\ asked' = IF pc[c].tok = AnyOne THEN asked
                ELSE [asked EXCEPT ![pc[c].tok] = pc[c].keyslots]
    /\ Return(c)
    /\ UNCHANGED <<area, lock, backup, owed, fresh, counters>>

(* LUKS2_hdr_write: the header is cleaned and validated in any case; a     *)
(* header that is refused stays in memory as it is.                        *)
LUKS2_hdr_write(c, h, job) ==
    LET g == LUKS2_digests_erase_unused(h) IN
    /\ mem' = [mem EXCEPT ![c] = g]
    /\ IF LUKS2_hdr_validate(g)
       THEN pc' = [pc EXCEPT ![c] = job] ELSE Return(c)

-----------------------------------------------------------------------------
(* The calls                                                               *)

Call(c) ==
    /\ pc[c] = Idle /\ mem[c] # NoHdr /\ lock = NoOne /\ ops < MaxOps
    /\ ops' = ops + 1
    /\ UNCHANGED <<disk, area, lock, backup, asked, fresh, faults>>

Load(c) ==
    /\ pc[c] = Idle /\ mem[c] # disk /\ lock = NoOne
    /\ mem' = [mem EXCEPT ![c] = disk]
    /\ UNCHANGED <<disk, area, pc, lock, backup, promises, fresh, counters>>

keyslot_verify_or_find_empty(h, slot) ==
    LET k == IF slot = AnyOne THEN LUKS2_keyslot_find_empty(h) ELSE slot
    IN IF k = AnyOne \/ h.ks[k] # None THEN {} ELSE {k}

(* The volume key: the one of the context if no keyslot is in use, else    *)
(* from a keyslot that the passphrase opens.                               *)
KeysFor(c, p) ==
    LET h == mem[c] IN
    IF LUKS2_keyslot_active_count(h) = 0
    THEN IF c \in fresh THEN {FirstKey} ELSE {}
    ELSE {KeyOf(h, k, p) : k \in LUKS2_keyslot_open(h, AnyOne, p, FALSE)}

crypt_keyslot_add_by_passphrase(c) ==
    /\ Call(c)
    /\ \E slot \in Slot \cup {AnyOne}, p, np \in Pass :
       \E k \in keyslot_verify_or_find_empty(mem[c], slot), v \in KeysFor(c, p) :
          LET h == mem[c]  d == LUKS2_digest_by_segment(h) IN
          IF d # AnyOne /\ h.dg[d].key = v
          THEN LUKS2_keyslot_store(c, LUKS2_digest_assign(h, k, d), Job(k, v, np))
          ELSE Fail(c) /\ UNCHANGED <<mem, salt>>
    /\ UNCHANGED owed

(* The same with the passphrases from files; the second file is read when  *)
(* the key is open.                                                        *)
crypt_keyslot_add_by_keyfile(c) ==
    /\ Call(c)
    /\ \E p \in Pass : KeysFor(c, p) # {}
    /\ Fail(c)
    /\ UNCHANGED <<mem, owed, salt>>

(* A key that opens no segment, or that becomes the key of the segment.    *)
crypt_keyslot_add_by_key(c) ==
    /\ Call(c)
    /\ \E slot \in Slot \cup {AnyOne}, v \in Key, np \in Pass, noseg, set, reuse \in BOOLEAN :
       \E k \in keyslot_verify_or_find_empty(mem[c], slot) :
          LET h == mem[c]
              s == LUKS2_digest_by_segment(h)
              bySegment == s # AnyOne /\ h.dg[s].key = v
              same == {e \in DigestsOf(h) : h.dg[e].key = v}
              d == IF bySegment THEN s
                   ELSE IF reuse /\ same # {} THEN Min(same) ELSE AnyOne
              newkey == set /\ ~bySegment
              create == (noseg \/ newkey) /\ (d = AnyOne \/ ~reuse)
              full == Digest \ DigestsOf(h) = {}
              h1 == IF create /\ ~full THEN LUKS2_digest_create(h, v) ELSE h
              d1 == IF create THEN Min(Digest \ DigestsOf(h)) ELSE d
          IN /\ ~(noseg /\ set)
             /\ IF IF create THEN full ELSE d = AnyOne
                THEN Fail(c) /\ UNCHANGED <<mem, salt>>
                ELSE LUKS2_keyslot_store(c, LUKS2_digest_assign(h1, k, d1),
                                         [Job(k, v, np) EXCEPT !.newkey = newkey])
    /\ UNCHANGED owed

(* The key of a keyslot becomes the key of the segment.                    *)
verify_and_update_segment_digest(c) ==
    /\ Call(c)
    /\ \E k \in SlotsOf(mem[c]) : \E p \in Pass :
          LET h == mem[c]  d == LUKS2_digest_by_keyslot(h, k)
              s == LUKS2_digest_by_segment(h) IN
          /\ LUKS2_open_and_verify(h, k, p) # {}
          /\ s # AnyOne => h.dg[s].key # h.dg[d].key
          /\ LUKS2_hdr_write(c, update_volume_key_segment_digest(h, d),
                             WriteJob(AnyOne, {}, FALSE))
    /\ UNCHANGED <<owed, salt>>

(* While a passphrase is changed the old one or the new one is promised.   *)
crypt_keyslot_change_by_passphrase(c) ==
    /\ Call(c)
    /\ \E ask, want \in Slot \cup {AnyOne}, p, np \in Pass :
       \E old \in LUKS2_keyslot_open(mem[c], ask, p, TRUE) :
          LET h == mem[c]
              v == KeyOf(h, old, p)
              empty == LUKS2_keyslot_find_empty(h)
              new == IF want # AnyOne THEN want
                     ELSE IF empty = AnyOne \/ LUKS2_find_area_gap(h, AreaLen[v]) = AnyOne
                          THEN old ELSE empty
              h1 == LUKS2_token_assignment_copy(
                        LUKS2_digest_assign(h, new, LUKS2_digest_by_keyslot(h, old)),
                        old, new)
          IN IF new = old
             THEN Go(c, Job(old, v, np), "wipe") /\ UNCHANGED <<mem, owed, salt>>
             ELSE /\ LUKS2_keyslot_store(c, h1,
                        [Job(new, v, np) EXCEPT !.old = old, !.swap = (want = AnyOne)])
                  /\ owed' = {IF old \in e.slots /\ v = e.key /\ p \in e.passes
                              THEN [e EXCEPT !.slots = @ \cup {new}, !.passes = @ \cup {np}]
                              ELSE e : e \in owed}

crypt_keyslot_destroy(c) ==
    /\ Call(c)
    /\ \E k \in SlotsOf(mem[c]) :
          Go(c, [Job(k, "none", "none") EXCEPT !.old = k], "destroy")
    /\ UNCHANGED <<mem, owed, salt>>

LUKS2_keyslot_priority_set(c) ==
    /\ Call(c)
    /\ \E k \in SlotsOf(mem[c]), prio \in {"normal", "prefer", "ignore"} :
          LUKS2_hdr_write(c, [mem[c] EXCEPT !.ks[k].prio = prio],
                          WriteJob(AnyOne, {}, FALSE))
    /\ UNCHANGED <<owed, salt>>

(* A new token for keyslots that must exist, or none in the place.         *)
LUKS2_token_create(c) ==
    /\ Call(c)
    /\ \E t \in Token, ks \in SUBSET SlotsOf(mem[c]), remove \in BOOLEAN :
          LET tok == IF remove THEN None ELSE [type |-> "token", keyslots |-> ks]
              h == [mem[c] EXCEPT !.tk[t] = tok] IN
          /\ remove => ks = {}
          /\ IF ~remove /\ JsonSize(h) > JsonMax
             THEN mem' = [mem EXCEPT ![c].tk[t] = None] /\ Return(c)
             ELSE LUKS2_hdr_write(c, h, WriteJob(t, ks, FALSE))
    /\ UNCHANGED <<owed, salt>>

(* Whether the keyslot exists is left to the validation of the header.     *)
LUKS2_token_assign(c) ==
    /\ Call(c)
    /\ \E t \in TokensOf(mem[c]), k \in Slot, assign \in BOOLEAN :
          LET ks == IF assign THEN mem[c].tk[t].keyslots \cup {k}
                    ELSE mem[c].tk[t].keyslots \ {k} IN
          /\ "assign" \in Careless \/ k \in SlotsOf(mem[c])
          /\ LUKS2_hdr_write(c, [mem[c] EXCEPT !.tk[t].keyslots = ks],
                             WriteJob(t, ks, FALSE))
    /\ UNCHANGED <<owed, salt>>

(* The keyslot of a reencryption takes the largest gap; what fails reads   *)
(* the header again (reencrypt_init).                                      *)
LUKS2_keyslot_reencrypt_create(c) ==
    /\ Call(c)
    /\ LET h == mem[c]  k == LUKS2_keyslot_find_empty(h)
           gap == LUKS2_find_area_max_gap(h)
           ks == [type |-> "reencrypt", off |-> gap[1], len |-> gap[2], salt |-> 0,
                  prio |-> "ignore"]
           g == LUKS2_digests_erase_unused([h EXCEPT !.ks[k] = ks])
       IN /\ k # AnyOne /\ gap[2] > 0
          /\ \A j \in SlotsOf(h) : h.ks[j].type # "reencrypt"
          /\ IF LUKS2_hdr_validate(g)
             THEN mem' = [mem EXCEPT ![c] = g]
                  /\ pc' = [pc EXCEPT ![c] = WriteJob(AnyOne, {}, TRUE)]
             ELSE Fail(c) /\ UNCHANGED mem
    /\ UNCHANGED <<owed, salt>>

LUKS2_hdr_backup(c) ==
    /\ pc[c] = Idle /\ mem[c] # NoHdr /\ lock = NoOne /\ ops < MaxOps
    /\ ops' = ops + 1
    /\ backup = NoHdr
    /\ backup' = [hdr |-> disk, area |-> area, owed |-> owed, asked |-> asked]
    /\ UNCHANGED <<disk, area, mem, pc, lock, promises, fresh, salt, faults>>

(* The header and the areas as they were.  The sequence id goes back too,  *)
(* so that no other context may have the header open.                      *)
LUKS2_hdr_restore(c) ==
    /\ pc[c] = Idle /\ backup # NoHdr /\ lock = NoOne /\ ops < MaxOps
    /\ \A x \in Ctx \ {c} : mem[x] = NoHdr
    /\ ops' = ops + 1
    /\ disk' = backup.hdr /\ area' = backup.area
    /\ owed' = backup.owed /\ asked' = backup.asked
    /\ mem' = [mem EXCEPT ![c] = backup.hdr]
    /\ UNCHANGED <<pc, lock, backup, fresh, salt, faults>>

-----------------------------------------------------------------------------
(* Faults                                                                  *)

Fault == faults < MaxFaults /\ faults' = faults + 1

(* The area that the call is about to write or to wipe is left torn.       *)
Torn(c) ==
    /\ pc[c].at \in {"store", "wipe", "destroy"} /\ Locked(c)
    /\ area' = Written(mem[c].ks[Target(c)], Junk)
    /\ owed' = StillOwed(c)

AreaError(c) ==
    /\ Fault /\ Torn(c) /\ Error(c)
    /\ UNCHANGED <<disk, mem, lock, backup, asked, fresh, salt, ops>>

(* The header is written or not, and the sequence id in memory counted up. *)
HeaderError(c) ==
    LET h == IF pc[c].at = "destroyed" THEN LUKS2_digests_erase_unused(mem[c])
             ELSE mem[c] IN
    /\ \/ pc[c].at \in {"commit", "destroyed"}
       \/ pc[c].at = "write" /\ Locked(c)
    /\ LUKS2_hdr_validate(h)
    /\ Fault
    /\ disk' \in {disk, Committed(h)}
    /\ mem' = [mem EXCEPT ![c] = Committed(h)]
    /\ IF "retry" \in Careless THEN Error(c) ELSE Fail(c)
    /\ lock' = NoOne
    /\ UNCHANGED <<area, backup, promises, fresh, salt, ops>>

Die(c) ==
    /\ mem[c] # NoHdr
    /\ Fault
    /\ Torn(c) \/ UNCHANGED <<area, owed>>
    /\ mem' = [mem EXCEPT ![c] = NoHdr] /\ fresh' = fresh \ {c}
    /\ pc' = [pc EXCEPT ![c] = Idle]
    /\ lock' = IF lock = c THEN NoOne ELSE lock
    /\ UNCHANGED <<disk, backup, asked, salt, ops>>

(* crypt_free                                                              *)
Close(c) ==
    /\ pc[c] = Idle /\ mem[c] # NoHdr /\ backup # NoHdr
    /\ mem' = [mem EXCEPT ![c] = NoHdr] /\ fresh' = fresh \ {c}
    /\ UNCHANGED <<disk, area, pc, lock, backup, promises, counters>>

-----------------------------------------------------------------------------
(* LUKS2_generate_hdr: a digest for the segment and no keyslot.            *)
Formatted ==
    [seq |-> 1, ks |-> [k \in Slot |-> None], tk |-> [t \in Token |-> None],
     dg |-> [d \in Digest |-> IF d = Min(Digest)
                THEN [type |-> "pbkdf2", key |-> FirstKey, keyslots |-> {},
                      segment |-> TRUE]
                ELSE None]]

KeyslotsInit ==
    /\ disk = Formatted
    /\ area = [u \in 1..Units |-> Junk]
    /\ fresh \in {{c} : c \in Ctx}
    /\ mem = [c \in Ctx |-> IF c \in fresh THEN Formatted ELSE NoHdr]
    /\ pc = [c \in Ctx |-> Idle] /\ lock = NoOne /\ backup = NoHdr
    /\ owed = {} /\ asked = [t \in Token |-> {}]
    /\ salt = 0 /\ ops = 0 /\ faults = 0

Step(c) ==
    \/ Reload(c) \/ StoreArea(c) \/ DestroyArea(c) \/ WipeArea(c) \/ Stale(c)
    \/ CommitStore(c) \/ CommitDestroy(c) \/ CommitWrite(c)

NewCall(c) ==
    \/ crypt_keyslot_add_by_passphrase(c) \/ crypt_keyslot_add_by_keyfile(c)
    \/ crypt_keyslot_add_by_key(c) \/ verify_and_update_segment_digest(c)
    \/ crypt_keyslot_change_by_passphrase(c) \/ crypt_keyslot_destroy(c)
    \/ LUKS2_keyslot_priority_set(c) \/ LUKS2_token_create(c)
    \/ LUKS2_token_assign(c) \/ LUKS2_keyslot_reencrypt_create(c)
    \/ LUKS2_hdr_backup(c) \/ LUKS2_hdr_restore(c)

KeyslotsNext ==
    \E c \in Ctx :
        \/ Load(c) \/ NewCall(c) \/ Step(c)
        \/ AreaError(c) \/ HeaderError(c) \/ Die(c) \/ Close(c)

KeyslotsSpec == KeyslotsInit /\ [][KeyslotsNext]_vars

-----------------------------------------------------------------------------
(* Properties                                                              *)

Header ==
    [seq : Nat,
     ks : [Slot -> {None} \cup [type : {"luks2", "reencrypt"}, off : 1..Units,
              len : 1..Units, salt : Nat, prio : {"normal", "prefer", "ignore"}]],
     dg : [Digest -> {None} \cup [type : {"pbkdf2"}, key : Key,
              keyslots : SUBSET Slot, segment : BOOLEAN]],
     tk : [Token -> {None} \cup [type : {"token"}, keyslots : SUBSET Slot]]]

KeyslotsTypeOK ==
    /\ disk \in Header
    /\ \A c \in Ctx : mem[c] = NoHdr \/ mem[c] \in Header
    /\ area \in [1..Units -> {Junk} \cup (Nat \X Pass \X Key)]
    /\ lock \in Ctx \cup {NoOne} /\ fresh \subseteq Ctx
    /\ asked \in [Token -> SUBSET Slot]

(* Every passphrase that a call has reported to be stored opens its        *)
(* keyslot, and gives the key it was stored with, at every moment and so   *)
(* after every crash: until a call destroys or overwrites the keyslot.     *)
(* During a change of the passphrase that has a second keyslot, the old or *)
(* the new one does.                                                       *)
PassphrasesKept == \A e \in owed : Holds(e, e.slots)

(* The key in an area that a keyslot's salt belongs to is the key of the   *)
(* digest of the keyslot.                                                  *)
DigestsTell ==
    \A k \in SlotsOf(disk) : \A u \in Span(disk.ks[k]) :
        area[u] # Junk /\ area[u][1] = disk.ks[k].salt =>
            /\ LUKS2_digest_by_keyslot(disk, k) # AnyOne
            /\ disk.dg[LUKS2_digest_by_keyslot(disk, k)].key = area[u][3]

(* Key material is nowhere but in the area of a keyslot with its salt, so  *)
(* that a passphrase that was removed or changed opens nothing any more    *)
(* (unless a fault has left something behind).                             *)
RevokedGone ==
    faults = 0 /\ backup = NoHdr /\ lock = NoOne =>
        \A u \in 1..Units : area[u] # Junk =>
            \E k \in SlotsOf(disk) :
                u \in Span(disk.ks[k]) /\ disk.ks[k].salt = area[u][1]

(* The committed tokens are assigned as the calls that succeeded said, and *)
(* follow a keyslot whose passphrase is changed.                           *)
TokensAsAsked ==
    faults = 0 =>
        \A t \in Token :
            asked[t] = IF disk.tk[t] = None THEN {} ELSE disk.tk[t].keyslots

(* The committed metadata is in its bounds and tells the truth about the   *)
(* key material and about what callers have asked for                      *)
(* (LUKS2_digest_assign, LUKS2_token_assign, LUKS2_token_assignment_copy). *)
MetadataTrue == KeyslotsTypeOK /\ DigestsTell /\ TokensAsAsked
=============================================================================
