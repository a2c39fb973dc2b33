-------------------------------- MODULE LUKS1 --------------------------------
(***************************************************************************)
(* The LUKS1 header and its keyslots, and the conversion in place between  *)
(* LUKS1 and LUKS2 (lib/luks1/keymanage.c, keyencryption.c,                *)
(* lib/luks2/luks2_luks1_convert.c and their callers in lib/setup.c).      *)
(*                                                                         *)
(* The device is a row of 4k units.  LUKS1: the header in unit 0, the key  *)
(* material from unit 1.  LUKS2: two copies of the header of a number of   *)
(* units each, then the key material.  LUKS1 metadata is not locked, so    *)
(* there is one context.  Key material is there in Len pieces that all are *)
(* needed to get the volume key back (AF_split, AF_merge).                 *)
(***************************************************************************)
EXTENDS Integers, FiniteSets, FiniteSetsExt, Functions, TLC

CONSTANTS
    Pass,           \* passphrases
    K, Len,         \* number of keyslots, units that one takes
    H16,            \* units of the smallest LUKS2 header copy
    Meta,           \* sizes of the header copies of devices made as LUKS2
    Size,           \* units in front of the data
    MaxOps, MaxFaults

ASSUME LUKS1Constants ==
    /\ {K, Len, H16, Size} \subseteq Nat \ {0} /\ {MaxOps, MaxFaults} \subseteq Nat
    /\ Meta \subseteq Nat /\ IsFiniteSet(Meta) /\ \A m \in Meta : m >= H16
    /\ Size > 1 + K * Len

VARIABLES
    dev,        \* the units of the device
    mem,        \* the header of the context
    job,        \* the call that is under way
    fresh,      \* the context has the volume key since it formatted
    backup,     \* a header backup file
    owed,       \* passphrases that calls have promised to open a keyslot
    salt, ops, faults

vars == <<dev, mem, job, fresh, backup, owed, salt, ops, faults>>

Slot == 0..(K - 1)
Unit == 0..(Size - 1)
AnySlot == -1
Shift == 2 * H16 - 1            \* from LUKS1 to LUKS2 key material
NoSlot == [is |-> "no keyslot"]
NoHdr == [is |-> "no header"]
Junk == [is |-> "junk"]
Idle == [at |-> "idle"]

-----------------------------------------------------------------------------
(* Headers                                                                 *)

Area(off) == off .. (off + Len - 1)
Material(s, p, off) == [u \in Area(off) |-> [is |-> "key", salt |-> s, pass |-> p, piece |-> u - off]]
Wiped(us) == [u \in us |-> Junk]
Put(units) == [u \in Unit |-> IF u \in DOMAIN units THEN units[u] ELSE dev[u]]

(* LUKS_generate_phdr                                                      *)
LUKS_generate_phdr ==
    [is |-> "luks1", payload |-> Size,
     slot |-> [k \in Slot |-> [active |-> FALSE, off |-> 1 + k * Len, salt |-> 0]]]

LUKS_device_sectors(h) == Max({h.slot[k].off : k \in Slot}) + Len
LUKS_keyslots_offset(h) == Min({h.slot[k].off : k \in Slot})

(* No area reaches into the header, the data or another area.              *)
LUKS_check_keyslots(h) ==
    /\ \A k \in Slot : h.slot[k].off >= 1 /\ h.slot[k].off + Len <= h.payload
    /\ \A j, k \in Slot : j # k => Area(h.slot[j].off) \cap Area(h.slot[k].off) = {}

ActiveSlots(h) ==
    IF h.is = "luks1" THEN {k \in Slot : h.slot[k].active}
    ELSE {k \in Slot : h.slot[k] # NoSlot}

LUKS_keyslot_find_empty(h) ==
    IF ActiveSlots(h) = Slot THEN AnySlot ELSE Min(Slot \ ActiveSlots(h))

(* Both formats store the key in the same way.                             *)
LUKS_open_key(h, k, p) ==
    /\ k \in ActiveSlots(h)
    /\ \A u \in Area(h.slot[k].off) :
          u \in Unit /\ dev[u] = Material(h.slot[k].salt, p, h.slot[k].off)[u]

LUKS_open_key_with_hdr(h, k, p) ==
    {j \in Slot : k \in {AnySlot, j} /\ LUKS_open_key(h, j, p)}

(* A copy of a LUKS2 header is good when all of it is.                     *)
Copy2(h, c) == [u \in (c * h.meta)..((c + 1) * h.meta - 1) |->
                    [is |-> "luks2", copy |-> c, piece |-> u - c * h.meta, hdr |-> h]]
Headers2 == {dev[u].hdr : u \in {v \in Unit : dev[v].is = "luks2"}}
GoodCopies2 ==
    {<<h, c>> \in Headers2 \X {0, 1} :
        \A u \in DOMAIN Copy2(h, c) : dev[u] = Copy2(h, c)[u]}

(* LUKS_read_phdr                                                          *)
Header1 == IF dev[0].is = "luks1" /\ LUKS_check_keyslots(dev[0].hdr)
           THEN dev[0].hdr ELSE NoHdr

(* What _crypt_load_luks finds: the version is that of the first unit, and *)
(* a damaged first copy of LUKS2 is no obstacle.                           *)
LoadedHeader ==
    IF dev[0].is = "luks1" THEN Header1
    ELSE IF GoodCopies2 = {} THEN NoHdr
    ELSE (CHOOSE g \in GoodCopies2 : \A o \in GoodCopies2 : g[2] <= o[2])[1]

-----------------------------------------------------------------------------
(* Calls                                                                   *)

Call == job = Idle /\ mem # NoHdr /\ ops < MaxOps /\ ops' = ops + 1
Call1 == Call /\ mem.is = "luks1"
Go(at, j) == job' = [j EXCEPT !.at = at]
Return == job' = Idle
Job(k, p) == [at |-> "call", slot |-> k, pass |-> p, old |-> AnySlot, after |-> {}]

(* crypt_load                                                              *)
_crypt_load_luks ==
    /\ job = Idle /\ mem = NoHdr /\ LoadedHeader # NoHdr
    /\ mem' = LoadedHeader
    /\ dev' = IF mem'.is = "luks2"
              THEN Put([u \in 0..(2 * mem'.meta - 1) |->
                          IF u < mem'.meta THEN Copy2(mem', 0)[u] ELSE Copy2(mem', 1)[u]])
              ELSE dev
    /\ UNCHANGED <<job, fresh, backup, owed, salt, ops, faults>>

(* _crypt_format_luks1: the areas are wiped, then the header is written.   *)
_crypt_format_luks1 ==
    /\ job = Idle /\ mem = NoHdr /\ ops < MaxOps /\ ops' = ops + 1
    /\ mem' = LUKS_generate_phdr /\ fresh' = TRUE
    /\ dev' = Wiped(Unit) /\ owed' = {}
    /\ Go("phdr", Job(AnySlot, "none"))
    /\ UNCHANGED <<backup, salt, faults>>

MayAdd(p) ==
    IF ActiveSlots(mem) = {} THEN fresh ELSE LUKS_open_key_with_hdr(mem, AnySlot, p) # {}

crypt_keyslot_add_by_passphrase ==
    /\ Call1
    /\ \E p, np \in Pass, ask \in Slot \cup {AnySlot} :
          LET k == IF ask = AnySlot THEN LUKS_keyslot_find_empty(mem) ELSE ask IN
          /\ k # AnySlot /\ k \notin ActiveSlots(mem) /\ MayAdd(p)
          /\ Go("store", Job(k, np))
    /\ UNCHANGED <<dev, mem, fresh, backup, owed, salt, faults>>

(* With a second keyslot the old one is removed when the new one is there; *)
(* the only keyslot that is left is overwritten.                           *)
crypt_keyslot_change_by_passphrase ==
    /\ Call1
    /\ \E p, np \in Pass, ask, want \in Slot \cup {AnySlot} :
       \E old \in LUKS_open_key_with_hdr(mem, ask, p) :
          LET empty == LUKS_keyslot_find_empty(mem)
              new == IF want # AnySlot THEN want ELSE IF empty # AnySlot THEN empty ELSE old
          IN IF new = old THEN Go("overwrite", Job(new, np))
             ELSE new \notin ActiveSlots(mem) /\ Go("store", [Job(new, np) EXCEPT !.old = old])
    /\ UNCHANGED <<dev, mem, fresh, backup, owed, salt, faults>>

crypt_keyslot_destroy ==
    /\ Call1
    /\ \E k \in ActiveSlots(mem) : Go("del", Job(k, "none"))
    /\ UNCHANGED <<dev, mem, fresh, backup, owed, salt, faults>>

(* LUKS_hdr_uuid_set: what the context has in memory is written.           *)
LUKS_hdr_uuid_set ==
    /\ Call1
    /\ Go("phdr", Job(AnySlot, "none"))
    /\ UNCHANGED <<dev, mem, fresh, backup, owed, salt, faults>>

Promised(k) == {e \in owed : e.slot = k}

(* LUKS_set_key: the key material, with a new salt.                        *)
StoredSlot(k) == [mem EXCEPT !.slot[k] = [@ EXCEPT !.salt = salt + 1]]
LUKS_set_key ==
    LET k == job.slot IN
    /\ job.at = "store" /\ salt' = salt + 1
    /\ dev' = Put(Material(salt + 1, job.pass, mem.slot[k].off))
    /\ mem' = [StoredSlot(k) EXCEPT !.slot[k].active = TRUE]
    /\ Go("phdr", job)
    /\ UNCHANGED <<fresh, backup, owed, ops, faults>>

(* Mutation: the keyslot is disabled without wiping its area.              *)
DelKeyUnwiped ==
    LET k == job.slot IN
    /\ job.at \in {"del", "overwrite"} /\ Header1 # NoHdr
    /\ mem' = [Header1 EXCEPT !.slot[k].active = FALSE, !.slot[k].salt = 0]
    /\ owed' = owed \ Promised(k)
    /\ Go(IF job.at = "del" THEN "phdr" ELSE "blank", job)
    /\ UNCHANGED <<dev, fresh, backup, salt, ops, faults>>

(* LUKS_del_key: the header is read again, the keyslot disabled in memory, *)
(* the area wiped.  After a failed conversion there may be no header.      *)
DelKeyFails ==
    /\ job.at \in {"del", "overwrite"} /\ Header1 = NoHdr
    /\ mem' = NoHdr /\ Return
    /\ UNCHANGED <<dev, fresh, backup, owed, salt, ops, faults>>

LUKS_del_key ==
    LET k == job.slot IN
    /\ job.at \in {"del", "overwrite"} /\ Header1 # NoHdr
    /\ mem' = [Header1 EXCEPT !.slot[k].active = FALSE, !.slot[k].salt = 0]
    /\ dev' = Put(Wiped(Area(Header1.slot[k].off)))
    /\ owed' = owed \ Promised(k)
    /\ Go(IF job.at = "del" THEN "phdr" ELSE "blank", job)
    /\ UNCHANGED <<fresh, backup, salt, ops, faults>>

(* What a finished call promises: a stored passphrase; after a conversion, *)
(* the passphrases that there were.                                        *)
Delivered ==
    IF job.slot = AnySlot \/ ~mem.slot[job.slot].active THEN job.after
    ELSE {[slot |-> job.slot, pass |-> job.pass]}

Phdr(h) == [u \in {0} |-> [is |-> "luks1", hdr |-> h]]

(* LUKS_write_phdr, and the header read back.                              *)
LUKS_write_phdr ==
    /\ job.at \in {"phdr", "blank"}
    /\ dev' = Put(Phdr(mem))
    /\ owed' = owed \cup Delivered
    /\ CASE job.at = "blank" -> Go("store", job)
         [] job.at = "phdr" /\ job.old # AnySlot -> Go("del", Job(job.old, "none"))
         [] OTHER -> Return
    /\ UNCHANGED <<mem, fresh, backup, salt, ops, faults>>

-----------------------------------------------------------------------------
(* Backup, restore, repair                                                 *)

(* The header is loaded again; the backup has it and all key material.     *)
crypt_header_backup ==
    LET h == LoadedHeader IN
    /\ Call /\ backup = NoHdr /\ h.is = mem.is
    /\ mem' = h
    /\ backup' = [is |-> h.is, hdr |-> h, owed |-> owed,
                  units |-> [u \in 0..((IF h.is = "luks1" THEN LUKS_device_sectors(h)
                                        ELSE 2 * h.meta + h.ksize) - 1) |-> dev[u]]]
    /\ UNCHANGED <<dev, job, fresh, owed, salt, faults>>

(* By a context that has loaded no header, so that whatever is left of one *)
(* is replaced; a LUKS1 header that is there must fit the data.            *)
crypt_header_restore ==
    /\ job = Idle /\ mem = NoHdr /\ backup # NoHdr /\ ops < MaxOps /\ ops' = ops + 1
    /\ Header1 # NoHdr /\ backup.is = "luks1" => Header1.payload = backup.hdr.payload
    /\ dev' = Put(backup.units) /\ owed' = backup.owed
    /\ mem' = backup.hdr
    /\ UNCHANGED <<job, fresh, backup, salt, faults>>

(* The keyslots that are not in use get the offsets of a new header.  A    *)
(* first keyslot inside the header is refused, and the result is written   *)
(* only if it is good.                                                     *)
Repaired(h) ==
    [h EXCEPT !.slot = [k \in Slot |->
        IF @[k].active \/ @[k].off = LUKS_generate_phdr.slot[k].off THEN @[k]
        ELSE LUKS_generate_phdr.slot[k]]]

(* Mutation: the header is written whatever it looks like.                 *)
RepairUnchecked ==
    /\ job = Idle /\ mem = NoHdr /\ dev[0].is = "luks1" /\ Header1 = NoHdr
    /\ dev[0].hdr.slot[0].off >= 1
    /\ mem' = Repaired(dev[0].hdr)
    /\ dev' = Put(Phdr(mem'))
    /\ UNCHANGED <<job, fresh, backup, owed, salt, ops, faults>>

_keyslot_repair ==
    /\ job = Idle /\ mem = NoHdr /\ dev[0].is = "luks1" /\ Header1 = NoHdr
    /\ dev[0].hdr.slot[0].off >= 1
    /\ LUKS_check_keyslots(Repaired(dev[0].hdr))
    /\ mem' = Repaired(dev[0].hdr)
    /\ dev' = Put(Phdr(mem'))
    /\ UNCHANGED <<job, fresh, backup, owed, salt, ops, faults>>

-----------------------------------------------------------------------------
(* Conversion                                                              *)

(* json_luks1_object, move_keyslot_offset: the LUKS2 header for a LUKS1    *)
(* one; only keyslots in use are taken over.                               *)
json_luks1_object(h) ==
    [is |-> "luks2", meta |-> H16, ksize |-> h.payload - 2 * H16, tokens |-> FALSE,
     slot |-> [k \in Slot |-> IF h.slot[k].active
                THEN [is |-> "keyslot", off |-> h.slot[k].off + Shift,
                      salt |-> h.slot[k].salt, compat |-> TRUE]
                ELSE NoSlot]]

(* The area of the move: what is read at from.. is written at to.. .       *)
Moved(from, to, n) == [u \in to..(to + n - 1) |-> dev[u - to + from]]

(* Everything that can be checked is checked before anything is moved.     *)
LUKS2_luks1_to_luks2 ==
    LET size == LUKS_device_sectors(mem)  h == json_luks1_object(mem) IN
    /\ Call1
    /\ LUKS_keyslots_offset(mem) = 1
    /\ size + Shift <= mem.payload /\ size - 1 <= h.ksize
    /\ job' = [Job(AnySlot, "none") EXCEPT !.at = "move", !.after = owed]
                @@ [to |-> h, units |-> Moved(1, 2 * H16, size - 1)]
    /\ UNCHANGED <<dev, mem, fresh, backup, owed, salt, faults>>

(* The LUKS1 offsets of the keyslots, and places for those that are not in *)
(* use: the first gaps, which are taken in turn.                           *)
LUKS2_find_area_gap(h, taken) ==
    LET fits == {o \in (2 * h.meta)..(2 * h.meta + h.ksize - Len) :
                    \A k \in DOMAIN taken : Area(o) \cap Area(taken[k]) = {}}
        edge == {o \in fits : o = 2 * h.meta \/ \E k \in DOMAIN taken : o = taken[k] + Len}
    IN IF edge = {} THEN AnySlot ELSE Min(edge)

Placed(h) ==
    LET place[k \in 0..K] ==
            IF k = 0 THEN [j \in ActiveSlots(h) |-> h.slot[j].off]
            ELSE IF (k - 1) \in ActiveSlots(h) \/ AnySlot \in Range(place[k - 1])
                 THEN place[k - 1]
                 ELSE place[k - 1] @@ [j \in {k - 1} |-> LUKS2_find_area_gap(h, place[k - 1])]
    IN place[K]

keyslot_LUKS1_compatible(h) == \A k \in ActiveSlots(h) : h.slot[k].compat

PhdrOf(h) ==
    [is |-> "luks1", payload |-> Size,
     slot |-> [k \in Slot |-> [active |-> k \in ActiveSlots(h), off |-> Placed(h)[k] - Shift,
                               salt |-> IF k \in ActiveSlots(h) THEN h.slot[k].salt ELSE 0]]]

LUKS2_luks2_to_luks1 ==
    /\ Call /\ mem.is = "luks2"
    /\ ~mem.tokens /\ keyslot_LUKS1_compatible(mem) /\ ActiveSlots(mem) # {}
    /\ AnySlot \notin Range(Placed(mem))
    /\ job' = [Job(AnySlot, "none") EXCEPT !.at = "move", !.after = owed]
                @@ [to |-> PhdrOf(mem), units |-> Moved(2 * H16, 1, mem.ksize)]
    /\ UNCHANGED <<dev, mem, fresh, backup, owed, salt, faults>>

(* move_keyslot_areas; from here on to the end of the conversion only a    *)
(* backup can bring the passphrases back.                                  *)
move_keyslot_areas ==
    /\ job.at = "move"
    /\ dev' = Put(job.units) /\ owed' = {}
    /\ Go(IF job.to.is = "luks2" THEN "primary" ELSE "zero", job)
    /\ UNCHANGED <<mem, fresh, backup, salt, ops, faults>>

(* To LUKS2: the two copies of the header.                                 *)
WriteHeader2 ==
    /\ job.at \in {"primary", "secondary"}
    /\ dev' = Put(Copy2(job.to, IF job.at = "primary" THEN 0 ELSE 1))
    /\ IF job.at = "primary" THEN Go("secondary", job) /\ UNCHANGED <<mem, owed>>
       ELSE Return /\ mem' = job.to /\ owed' = job.after
    /\ UNCHANGED <<fresh, backup, salt, ops, faults>>

(* To LUKS1: the first unit is wiped, then the header is written.          *)
ZeroHeader ==
    /\ job.at = "zero"
    /\ dev' = Put(Wiped({0}))
    /\ mem' = job.to
    /\ Go("phdr", job)
    /\ UNCHANGED <<fresh, backup, owed, salt, ops, faults>>

-----------------------------------------------------------------------------
(* Faults                                                                  *)

Fault == faults < MaxFaults /\ faults' = faults + 1

(* What the current step writes.                                           *)
Writes ==
    CASE job.at = "store" -> Material(salt + 1, job.pass, mem.slot[job.slot].off)
      [] job.at \in {"del", "overwrite"} /\ Header1 # NoHdr -> Wiped(Area(Header1.slot[job.slot].off))
      [] job.at \in {"phdr", "blank"} -> Phdr(mem)
      [] job.at = "move" -> job.units
      [] job.at = "primary" -> Copy2(job.to, 0)
      [] job.at = "secondary" -> Copy2(job.to, 1)
      [] job.at = "zero" -> Wiped({0})
      [] OTHER -> <<>>

(* The units up to some point are written.                                 *)
Torn ==
    \E u \in {v \in -1..(Size - 1) : v = -1 \/ v \in DOMAIN Writes} :
        dev' = Put([v \in {w \in DOMAIN Writes : w <= u} |-> Writes[v]])

StillOwed ==
    CASE job.at \in {"del", "overwrite"} -> owed \ Promised(job.slot)
      [] job.at = "move" -> {}
      [] OTHER -> owed

Die ==
    /\ mem # NoHdr /\ Fault
    /\ Torn /\ owed' = StillOwed
    /\ mem' = NoHdr /\ fresh' = FALSE /\ Return
    /\ UNCHANGED <<backup, salt, ops>>

Converting == "to" \in DOMAIN job

(* A failed write.  The context goes on with what it has in memory, also   *)
(* with the keyslot of a failed call enabled or disabled, and with the     *)
(* LUKS1 header of a failed conversion; a keyslot that could not be wiped  *)
(* is overwritten nevertheless, and a LUKS1 header is written over a LUKS2 *)
(* header that could not be.                                               *)
IOError ==
    /\ job # Idle /\ Fault
    /\ job.at \in {"del", "overwrite"} => Header1 # NoHdr
    /\ Torn /\ owed' = StillOwed
    /\ mem' = CASE job.at = "store" -> StoredSlot(job.slot)
                 [] job.at \in {"del", "overwrite"} ->
                        [Header1 EXCEPT !.slot[job.slot].active = FALSE]
                 [] job.at = "zero" -> job.to
                 [] Converting /\ job.to.is = "luks1" /\ job.at # "zero" -> NoHdr
                 [] OTHER -> mem
    /\ CASE job.at \in {"overwrite", "blank"} -> Go("store", job)
         [] job.at = "zero" -> Go("phdr", job)
         [] OTHER -> Return
    /\ salt' = IF job.at = "store" THEN salt + 1 ELSE salt
    /\ UNCHANGED <<fresh, backup, ops>>

(* Another program spoils an entry of the header while nobody uses it.     *)
Damage ==
    /\ mem = NoHdr /\ dev[0].is = "luks1" /\ Header1 # NoHdr /\ Fault
    /\ \E k \in Slot :
          /\ dev' = Put(Phdr([dev[0].hdr EXCEPT !.slot[k].off = 0]))
          /\ owed' = owed \ Promised(k)
    /\ UNCHANGED <<mem, job, fresh, backup, salt, ops>>

crypt_free ==
    /\ job = Idle /\ mem # NoHdr
    /\ mem' = NoHdr /\ fresh' = FALSE
    /\ UNCHANGED <<dev, job, backup, owed, salt, ops, faults>>

-----------------------------------------------------------------------------
(* A new LUKS1 device, or a LUKS2 device with keyslots wherever the key    *)
(* material has got to.                                                    *)
Formatted2(m) ==
    {[is |-> "luks2", meta |-> m, ksize |-> Size - 2 * m, tokens |-> t, slot |-> s] :
        t \in BOOLEAN,
        s \in [Slot -> {NoSlot} \cup
                [is : {"keyslot"}, off : (2 * m)..(Size - Len), salt : {1}, compat : BOOLEAN]]}

Valid2(h) ==
    /\ \A j, k \in ActiveSlots(h) : j # k => Area(h.slot[j].off) \cap Area(h.slot[k].off) = {}
    /\ \A k \in ActiveSlots(h) : (h.slot[k].off - 2 * h.meta) % Len = 0

On2(h, p) ==
    [u \in Unit |->
        IF u < h.meta THEN Copy2(h, 0)[u]
        ELSE IF u < 2 * h.meta THEN Copy2(h, 1)[u]
        ELSE IF \E k \in ActiveSlots(h) : u \in Area(h.slot[k].off)
             THEN LET k == CHOOSE k \in ActiveSlots(h) : u \in Area(h.slot[k].off)
                  IN Material(1, p, h.slot[k].off)[u]
             ELSE Junk]

Init ==
    /\ \/ /\ dev = [u \in Unit |-> IF u = 0 THEN [is |-> "luks1", hdr |-> LUKS_generate_phdr]
                                     ELSE Junk]
          /\ mem = LUKS_generate_phdr /\ fresh = TRUE /\ owed = {}
       \/ \E m \in Meta, p \in Pass : \E h \in {g \in Formatted2(m) : Valid2(g)} :
            /\ dev = On2(h, p) /\ mem = h /\ fresh = FALSE
            /\ owed = {[slot |-> k, pass |-> p] : k \in ActiveSlots(h)}
    /\ job = Idle /\ backup = NoHdr /\ salt = 1 /\ ops = 0 /\ faults = 0

Next ==
    \/ _crypt_load_luks \/ _crypt_format_luks1 \/ crypt_free
    \/ crypt_keyslot_add_by_passphrase \/ crypt_keyslot_change_by_passphrase
    \/ crypt_keyslot_destroy \/ LUKS_hdr_uuid_set
    \/ LUKS_set_key \/ LUKS_del_key \/ DelKeyFails \/ LUKS_write_phdr
    \/ crypt_header_backup \/ crypt_header_restore \/ _keyslot_repair
    \/ LUKS2_luks1_to_luks2 \/ LUKS2_luks2_to_luks1 \/ move_keyslot_areas
    \/ WriteHeader2 \/ ZeroHeader
    \/ Die \/ IOError \/ Damage

Spec == Init /\ [][Next]_vars

-----------------------------------------------------------------------------
(* Properties                                                              *)

LUKS1TypeOK ==
    /\ \A u \in Unit : dev[u].is \in {"junk", "key", "luks1", "luks2"}
    /\ mem.is \in {"no header", "luks1", "luks2"}
    /\ owed \subseteq [slot : Slot, pass : Pass]
    /\ mem.is = "luks1" => LUKS_check_keyslots(mem)

(* The header on the device, even if an entry of it is spoiled.            *)
Entries == IF dev[0].is = "luks1" THEN dev[0].hdr ELSE LoadedHeader

(* A passphrase that a call has stored opens its keyslot until the keyslot *)
(* is destroyed or overwritten: through deaths, failed writes and repairs  *)
(* of the header, after every conversion that has succeeded, and after     *)
(* every restore of a backup, also from the middle of a conversion.        *)
StoredKeysOpen ==
    \A e \in owed : Entries # NoHdr /\ LUKS_open_key(Entries, e.slot, e.pass)

(* The passphrases are kept, by a header that every context has checked    *)
(* (LUKS_check_keyslots).                                                  *)
LUKS1Kept == LUKS1TypeOK /\ StoredKeysOpen

(* Key material can be put together only for keyslots in use.              *)
DeletedKeysGone ==
    faults = 0 /\ backup = NoHdr /\ job = Idle =>
        \A s \in 1..salt, p \in Pass :
            (\A i \in 0..(Len - 1) : \E u \in Unit :
                dev[u] = [is |-> "key", salt |-> s, pass |-> p, piece |-> i]) =>
            \E k \in ActiveSlots(Entries) : Entries.slot[k].salt = s

=============================================================================
