-------------------------------- MODULE Tool --------------------------------
(***************************************************************************)
(* The commands of cryptsetup that work on keyslots (src/cryptsetup.c):    *)
(* each loads the header, asks for passphrases and confirmations, and then *)
(* calls the library, once or several times.  What was loaded and what was *)
(* asked may be out of date when the library is called.                    *)
(*                                                                         *)
(* A call of the library is one step: the header and the keyslot area are  *)
(* written under the write lock, after a check of the sequence id (LUKS2,  *)
(* see LUKS2Keyslots and LUKS2Header) or without any (LUKS1).              *)
(***************************************************************************)
EXTENDS Integers, FiniteSets

CONSTANTS
    Users,          \* those who may run commands
    Slot,           \* 0 .. crypt_keyslot_max() - 1
    Passphrase,
    Worlds          \* the device and what happens to it

ASSUME ToolConstants ==
    /\ Slot \subseteq Nat /\ IsFiniteSet(Slot)
    /\ Passphrase \subseteq Nat \ {0}
    /\ \A w \in Worlds :
         /\ w.users \in SUBSET Users
         /\ w.type \in {"luks1", "luks2"} /\ w.active \in SUBSET (Slot \cap Passphrase)
         /\ w.unbound \in SUBSET ((Slot \cap Passphrase) \ w.active)
         /\ w.cmds \in Nat /\ w.deaths \in Nat
         /\ w.at \subseteq {"luks1", "format", "run", "keyfile"}
            \* what the code does not take care of: two commands at a time on
            \* LUKS1, luksFormat while another command runs, the removal of a
            \* keyslot while another process reencrypts, and luksKillSlot of
            \* the last keyslot with its passphrase in a file

VARIABLES
    disk,           \* the header on the device
    area,           \* the keyslot areas
    job,            \* the command of each user
    owed,           \* passphrases that the users have not given up
    consent,        \* somebody agreed to make the device unusable
    made,           \* counts keys, salts and uuids
    world, cmds, deaths

vars == <<disk, area, job, owed, consent, made, world, cmds, deaths>>

Any == -1
NoKey == -1
ReencryptArea == 0      \* what a keyslot of type reencrypt has for a key
NoToken == {Any}
NoPass == 0

(* A keyslot in the header, and the key material it is for.                *)
NoSlot == [key |-> NoKey, salt |-> 0]
Wiped == [pass |-> NoPass, salt |-> 0]

NoJob == [op |-> "none", pc |-> "idle", hdr |-> <<>>, slot |-> Any, pass |-> NoPass,
          todo |-> {}, made |-> {}, key |-> NoKey, new |-> Any]

Init ==
    /\ world \in Worlds
    /\ disk = [type |-> world.type, uuid |-> 0, seq |-> 0, vk |-> 1, newvk |-> NoKey, token |-> NoToken,
               slots |-> [s \in Slot |-> IF s \in world.active THEN [key |-> 1, salt |-> s]
                                         ELSE IF s \in world.unbound THEN [key |-> 2, salt |-> s]
                                         ELSE NoSlot]]
    /\ area = [s \in Slot |-> IF s \in world.active \cup world.unbound THEN [pass |-> s, salt |-> s] ELSE Wiped]
    /\ job = [u \in Users |-> NoJob]
    /\ owed = world.active
    /\ consent = FALSE
    /\ made = Cardinality(Slot) + 1
    /\ cmds = 0 /\ deaths = 0

-----------------------------------------------------------------------------
(* The header                                                              *)

Reencrypting(h) == h.newvk # NoKey

(* The key of the default segment: the final one in a reencryption.        *)
DefaultKey(h) == IF Reencrypting(h) THEN h.newvk ELSE h.vk

Bound(h) == {h.vk, h.newvk} \ {NoKey}
Active(h) == {s \in Slot : h.slots[s].key \in Bound(h)}
Free(h) == {s \in Slot : h.slots[s] = NoSlot}

(* Mutation: every keyslot counts, not only those of the default segment.  *)
StatusOfAny(h, s) ==
    IF h.slots[s] = NoSlot THEN "inactive"
    ELSE IF h.slots[s].key \notin Bound(h) THEN "unbound"
    ELSE IF Cardinality(Slot \ Free(h)) = 1 THEN "last" ELSE "active"

(* crypt_keyslot_status *)
KeyslotStatus(h, s) ==
    IF h.slots[s] = NoSlot THEN "inactive"
    ELSE IF h.slots[s].key \notin Bound(h) THEN "unbound"
    ELSE IF {t \in Slot : h.slots[t].key = DefaultKey(h)} = {s} THEN "last" ELSE "active"

Unlocks(h, s, p) == h.slots[s] # NoSlot /\ area[s] = [pass |-> p, salt |-> h.slots[s].salt]

(* The keyslots among ss that crypt_activate_by_passphrase may return; in  *)
(* a reencryption both keys have to be had.                                *)
Opened(h, ss, p) ==
    LET with(k) == {s \in ss : h.slots[s].key = k /\ Unlocks(h, s, p)}
    IN  IF Reencrypting(h) /\ with(h.vk) = {} THEN {} ELSE with(DefaultKey(h))

(* The same with CRYPT_ACTIVATE_ALLOW_UNBOUND_KEY.                         *)
OpenedUnbound(h, ss, p) == {s \in ss : Unlocks(h, s, p)}

SlotsOf(s) == IF s = Any THEN Slot ELSE {s}
First(ss) == CHOOSE s \in ss : \A t \in ss : s <= t

-----------------------------------------------------------------------------
(* Calls of the library                                                    *)

Others(u) == Users \ {u}
Idle(u) == job[u].pc = "idle"

(* Mutation: the sequence id is not compared.                              *)
CurrentAlways(u) == TRUE

(* LUKS2_device_write_lock; the process that reencrypts is not checked.    *)
Current(u) ==
    LET h == job[u].hdr IN
    disk.type = "luks2" /\ disk.uuid = h.uuid /\ job[u].pc # "run" => h.seq = disk.seq

Written(h) == IF h.type = "luks2" THEN [h EXCEPT !.seq = @ + 1] ELSE h

WithoutSlot(h, s) ==
    [h EXCEPT !.slots[s] = NoSlot, !.token = IF @ = NoToken THEN @ ELSE @ \ {s}]

(* LUKS_del_key reads the header again.                                    *)
HeaderToDestroy(u) == IF job[u].hdr.type = "luks1" THEN disk ELSE job[u].hdr

CanDestroy(u, s) ==
    /\ Current(u)
    /\ HeaderToDestroy(u).type = job[u].hdr.type
    /\ job[u].hdr.slots[s] # NoSlot
    /\ "run" \notin world.at => \A v \in Others(u) : job[v].pc # "run"

(* crypt_keyslot_destroy *)
Destroys(u, s) ==
    /\ CanDestroy(u, s)
    /\ area' = [area EXCEPT ![s] = Wiped]
    /\ disk' = Written(WithoutSlot(HeaderToDestroy(u), s))

(* crypt_keyslot_add_by_key and the like; areas of keyslots in gone are    *)
(* wiped.                                                                  *)
Stores(u, h, s, p, k, gone) ==
    /\ Current(u)
    /\ made' = made + 1
    /\ area' = [t \in Slot |-> IF t = s THEN [pass |-> p, salt |-> made'] ELSE IF t \in gone THEN Wiped ELSE area[t]]
    /\ disk' = Written([h EXCEPT !.slots[s] = [key |-> k, salt |-> made']])

Goes(u, j) == job' = [job EXCEPT ![u] = j]
Ends(u) == Goes(u, NoJob)

-----------------------------------------------------------------------------
(* The beginning of a command: crypt_load, and what it was asked for.      *)

Loads(u, op, s, pc) ==
    /\ Idle(u)
    /\ cmds < world.cmds /\ cmds' = cmds + 1
    /\ op \in world.ops
    /\ disk.type # "none"
    /\ disk.type = "luks1" /\ "luks1" \notin world.at => \A v \in Others(u) : Idle(v)
    /\ "format" \notin world.at => \A v \in Others(u) : job[v].pc # "first"
    /\ Goes(u, [NoJob EXCEPT !.op = op, !.hdr = disk, !.slot = s, !.pc = pc])

Unwritten == UNCHANGED <<disk, area, owed, made>>
NoFault == UNCHANGED <<world, deaths>>

(* action_luksKillSlot; in batch mode nothing is asked.                    *)
action_luksKillSlot(u) ==
    \E s \in Slot, batch \in BOOLEAN :
       /\ KeyslotStatus(disk, s) # "inactive"
       /\ Loads(u, "kill", s, IF batch THEN "destroy" ELSE "verify")
       /\ consent' = (consent \/ batch)
       /\ Unwritten /\ NoFault

(* The passphrase of the last keyslot, or of another one; when no other is *)
(* active the loop tries none.                                             *)
Verified(h, s) ==
    IF KeyslotStatus(h, s) = "last" THEN \E p \in Passphrase : Opened(h, {s}, p) # {}
    ELSE LET others == Active(h) \ {s}
         IN  others = {} \/ \E p \in Passphrase, t \in others : Opened(h, {t}, p) # {}

(* verify_keyslot: the last keyslot is asked for before, but not with a    *)
(* key file.  When there is nothing to read from the standard input no     *)
(* passphrase is needed, as in batch mode.                                 *)
verify_keyslot(u) ==
    LET last == KeyslotStatus(job[u].hdr, job[u].slot) = "last" IN
    /\ job[u].pc = "verify"
    /\ \/ /\ \/ \E keyfile \in BOOLEAN :
                  /\ keyfile /\ last => "keyfile" \in world.at
                  /\ Verified(job[u].hdr, job[u].slot)
                  /\ consent' = (consent \/ (last /\ ~keyfile))
             \/ consent' = TRUE
          /\ Goes(u, [job[u] EXCEPT !.pc = "destroy"])
       \/ Ends(u) /\ UNCHANGED consent
    /\ Unwritten /\ UNCHANGED cmds /\ NoFault

action_luksRemoveKey(u) ==
    /\ Loads(u, "remove", Any, "remove")
    /\ UNCHANGED consent /\ Unwritten /\ NoFault

(* The keyslot of the passphrase; the last one is asked for.               *)
SelectKey(u) ==
    /\ job[u].pc = "remove"
    /\ \E p \in Passphrase :
         LET ss == Opened(job[u].hdr, Slot, p) IN
         /\ ss # {}
         /\ \/ /\ Goes(u, [job[u] EXCEPT !.pc = "destroy", !.slot = First(ss)])
               /\ consent' = (consent \/ KeyslotStatus(job[u].hdr, First(ss)) = "last")
            \/ Ends(u) /\ UNCHANGED consent
    /\ Unwritten /\ UNCHANGED cmds /\ NoFault

(* The end of luksKillSlot and luksRemoveKey.                              *)
DestroySlot(u) ==
    /\ job[u].pc = "destroy"
    /\ \/ Destroys(u, job[u].slot) /\ owed' = owed \ {area[job[u].slot].pass}
       \/ ~CanDestroy(u, job[u].slot) /\ UNCHANGED <<disk, area, owed>>
    /\ Ends(u)
    /\ UNCHANGED <<consent, made, cmds>> /\ NoFault

(* action_luksErase, after its question: every active keyslot.             *)
action_luksErase(u) ==
    /\ Loads(u, "erase", Any, "erase")
    /\ consent' = TRUE
    /\ Unwritten /\ NoFault

EraseSlot(u) ==
    LET ss == Active(job[u].hdr) IN
    /\ job[u].pc = "erase"
    /\ \/ /\ ss # {} /\ Destroys(u, First(ss))
          /\ owed' = owed \ {area[First(ss)].pass}
          /\ Goes(u, [job[u] EXCEPT !.hdr = disk'])
       \/ /\ ss # {} => ~CanDestroy(u, First(ss))
          /\ Ends(u) /\ UNCHANGED <<disk, area, owed>>
    /\ UNCHANGED <<consent, made, cmds>> /\ NoFault

(* action_luksAddKey, luksAddUnboundKey *)
action_luksAddKey(u) ==
    \E s \in {Any} \cup Slot, unbound \in BOOLEAN :
       /\ unbound => disk.type = "luks2"
       /\ Loads(u, "add", s, IF unbound THEN "unbound" ELSE "check")
       /\ UNCHANGED consent /\ Unwritten /\ NoFault

(* A passphrase, or the volume key in a file, before the new one is asked. *)
CheckPassphrase(u) ==
    /\ job[u].pc = "check"
    /\ \/ \E p \in Passphrase :
            /\ Opened(job[u].hdr, Slot, p) # {}
            /\ Goes(u, [job[u] EXCEPT !.pc = "add", !.pass = p])
       \/ Goes(u, [job[u] EXCEPT !.pc = "add"])
       \/ Ends(u)
    /\ UNCHANGED consent /\ Unwritten /\ UNCHANGED cmds /\ NoFault

(* The library opens a keyslot again; it refuses in a reencryption.        *)
AddKey(u) ==
    LET j == job[u]
        free == Free(j.hdr) \cap SlotsOf(j.slot)
        possible == /\ ~Reencrypting(j.hdr) /\ free # {} /\ Current(u)
                    /\ j.pass # NoPass => Opened(j.hdr, Slot, j.pass) # {}
    IN  /\ j.pc \in {"add", "unbound"}
        /\ \/ \E p \in Passphrase :
                /\ possible
                /\ Stores(u, j.hdr, First(free), p, IF j.pc = "add" THEN j.hdr.vk ELSE made + 1, {})
                /\ owed' = IF j.pc = "add" THEN owed \cup {p} ELSE owed
           \/ ~possible /\ UNCHANGED <<disk, area, owed, made>>
        /\ Ends(u)
        /\ UNCHANGED <<consent, cmds>> /\ NoFault

(* action_luksChangeKey, action_luksConvertKey *)
action_luksChangeKey(u) ==
    \E s \in {Any} \cup Slot :
       /\ Loads(u, "change", s, "change")
       /\ UNCHANGED consent /\ Unwritten /\ NoFault

CheckChanged(u) ==
    /\ job[u].pc = "change"
    /\ \/ \E p \in Passphrase :
            /\ OpenedUnbound(job[u].hdr, SlotsOf(job[u].slot), p) # {}
            /\ Goes(u, [job[u] EXCEPT !.pc = "store", !.pass = p])
       \/ Ends(u)
    /\ UNCHANGED consent /\ Unwritten /\ UNCHANGED cmds /\ NoFault

(* A keyslot of LUKS2 keeps its number, one of LUKS1 only when it was      *)
(* asked for or none is free; luksConvertKey stores the same passphrase.   *)
ChangeKey(u) ==
    LET j == job[u]
        ss == OpenedUnbound(j.hdr, SlotsOf(j.slot), j.pass)
        old == First(ss)
        new == IF j.hdr.type = "luks1" /\ j.slot = Any /\ Free(j.hdr) # {} THEN First(Free(j.hdr)) ELSE old
        possible == ~Reencrypting(j.hdr) /\ ss # {} /\ Current(u)
    IN  /\ j.pc = "store"
        /\ \/ \E p \in Passphrase :
                /\ possible
                /\ Stores(u, [j.hdr EXCEPT !.slots[old] = NoSlot], new, p, j.hdr.slots[old].key, {old})
                /\ owed' = IF old \in Active(j.hdr) THEN (owed \ {j.pass}) \cup {p} ELSE owed
           \/ ~possible /\ UNCHANGED <<disk, area, owed, made>>
        /\ Ends(u)
        /\ UNCHANGED <<consent, cmds>> /\ NoFault

-----------------------------------------------------------------------------
(* _luksFormat, after its question: the header, then the first keyslot.    *)

action_luksFormat(u) ==
    /\ Idle(u)
    /\ cmds < world.cmds /\ cmds' = cmds + 1
    /\ "format" \in world.ops
    /\ "format" \notin world.at => \A v \in Others(u) : Idle(v)
    /\ made' = made + 1
    /\ area' = [s \in Slot |-> Wiped]
    /\ disk' = [disk EXCEPT !.type = "luks2", !.uuid = made', !.seq = 1, !.vk = made', !.newvk = NoKey,
                            !.token = NoToken, !.slots = [s \in Slot |-> NoSlot]]
    /\ consent' = TRUE /\ owed' = {}
    /\ Goes(u, [NoJob EXCEPT !.op = "format", !.hdr = disk', !.pc = "first"])
    /\ NoFault

(* When the keyslot cannot be stored the signatures are wiped.             *)
FirstKey(u) ==
    /\ job[u].pc = "first"
    /\ \/ \E p \in Passphrase :
            Stores(u, job[u].hdr, First(Slot), p, job[u].hdr.vk, {}) /\ owed' = owed \cup {p}
       \/ disk' = [disk EXCEPT !.type = "none"] /\ UNCHANGED <<area, owed, made>>
    /\ Ends(u)
    /\ UNCHANGED <<consent, cmds>> /\ NoFault

-----------------------------------------------------------------------------
(* _token_add, _token_import: the token, and then its keyslot.             *)

TokenWritten(u, h) == Current(u) /\ ~Reencrypting(h) /\ disk' = Written(h)

action_token(u) ==
    \E s \in Slot :
       /\ disk.type = "luks2" /\ disk.token = NoToken /\ disk.slots[s] # NoSlot
       /\ Loads(u, "token", s, "token")
       /\ UNCHANGED consent /\ Unwritten /\ NoFault

TokenAdd(u) ==
    /\ job[u].pc = "token"
    /\ \/ /\ TokenWritten(u, [job[u].hdr EXCEPT !.token = {}])
          /\ Goes(u, [job[u] EXCEPT !.hdr = disk', !.pc = "assign"])
       \/ (~Current(u) \/ Reencrypting(job[u].hdr)) /\ Ends(u) /\ UNCHANGED disk
    /\ UNCHANGED <<area, owed, made, consent, cmds>> /\ NoFault

(* A token that cannot be assigned is removed.                             *)
TokenAssign(u) ==
    LET j == job[u] IN
    /\ j.pc = "assign"
    /\ \/ TokenWritten(u, [j.hdr EXCEPT !.token = {j.slot}]) /\ Ends(u)
       \/ Goes(u, [j EXCEPT !.pc = "unassigned"]) /\ UNCHANGED disk
    /\ UNCHANGED <<area, owed, made, consent, cmds>> /\ NoFault

TokenDrop(u) ==
    /\ job[u].pc = "unassigned"
    /\ \/ TokenWritten(u, [job[u].hdr EXCEPT !.token = NoToken])
       \/ ~Current(u) /\ UNCHANGED disk
    /\ Ends(u)
    /\ UNCHANGED <<area, owed, made, consent, cmds>> /\ NoFault

-----------------------------------------------------------------------------
(* action_reencrypt_luks2                                                  *)

(* Mutation: the keyslot of the reencryption is not counted.               *)
FitsWithoutReencrypt(h, s) ==
    LET active == Cardinality(Active(h))
        unbound == Cardinality(Slot \ (Free(h) \cup Active(h)))
        max == Cardinality(Slot)
    IN  active + unbound <= max - 1 /\ (s = Any => 2 * active + unbound <= max)

(* _check_luks2_keyslots: a new keyslot for each one, and the one of the   *)
(* reencryption.                                                           *)
_check_luks2_keyslots(h, s) ==
    LET active == Cardinality(Active(h))
        unbound == Cardinality(Slot \ (Free(h) \cup Active(h)))
        max == Cardinality(Slot)
    IN  active + unbound <= max - 2 /\ (s = Any => 2 * active + unbound <= max - 1)

(* action_reencrypt: a device in reencryption is resumed, others are       *)
(* initialised.                                                            *)
action_reencrypt(u) ==
    \E s \in {Any} \cup Slot :
       /\ disk.type = "luks2"
       /\ Loads(u, "reencrypt", s, IF Reencrypting(disk) THEN "resume" ELSE "passwords")
       /\ Reencrypting(disk) \/ _check_luks2_keyslots(disk, s)
       /\ UNCHANGED consent /\ Unwritten /\ NoFault

action_reencrypt_load(u) ==
    /\ job[u].pc = "resume"
    /\ \/ /\ \E p \in Passphrase : Opened(job[u].hdr, Slot, p) # {}
          /\ Current(u) /\ \A v \in Others(u) : job[v].pc # "run"
          /\ Goes(u, [job[u] EXCEPT !.pc = "run"])
       \/ Ends(u)
    /\ UNCHANGED consent /\ Unwritten /\ UNCHANGED cmds /\ NoFault

(* The user knows the passphrase of an active keyslot.                     *)
init_passphrase(h, s) == s \in Active(h) /\ \E p \in Passphrase : Unlocks(h, s, p)

(* fill_keyslot_passwords: the passphrase of every active keyslot, or of   *)
(* the one that was asked for.                                             *)
fill_keyslot_passwords(u) ==
    LET j == job[u]
        ss == SlotsOf(j.slot) \cap Active(j.hdr)
    IN  /\ j.pc = "passwords"
        /\ \/ /\ ss # {} /\ \A s \in ss : init_passphrase(j.hdr, s)
              /\ Goes(u, [j EXCEPT !.pc = "slot", !.todo = ss])
           \/ Ends(u)
        /\ UNCHANGED consent /\ Unwritten /\ UNCHANGED cmds /\ NoFault

(* The next passphrase gets a keyslot for the new key, which is made with  *)
(* the first of them.                                                      *)
AddNewSlot(u) ==
    LET j == job[u]
        new == First(Free(j.hdr))
        key == IF j.key = NoKey THEN made + 1 ELSE j.key
    IN  /\ j.pc = "slot" /\ j.todo # {}
        /\ \/ /\ Free(j.hdr) # {} /\ Stores(u, j.hdr, new, area[First(j.todo)].pass, key, {})
              /\ Goes(u, [j EXCEPT !.hdr = disk', !.key = key, !.made = @ \cup {new}, !.new = new, !.pc = "tokens"])
           \/ Goes(u, [j EXCEPT !.pc = "cleanup"]) /\ UNCHANGED <<disk, area, made>>
        /\ UNCHANGED <<owed, consent, cmds>> /\ NoFault

(* Mutation: tokens stay with the old keyslots.                            *)
TokensStay(u) ==
    /\ job[u].pc = "tokens"
    /\ Goes(u, [job[u] EXCEPT !.pc = "slot", !.todo = @ \ {First(@)}])
    /\ UNCHANGED <<disk, area, owed, made, consent, cmds>> /\ NoFault

(* assign_tokens *)
assign_tokens(u) ==
    LET j == job[u]
        old == First(j.todo)
    IN  /\ j.pc = "tokens"
        /\ \/ /\ j.hdr.token # NoToken /\ old \in j.hdr.token
              /\ TokenWritten(u, [j.hdr EXCEPT !.token = @ \cup {j.new}])
              /\ Goes(u, [j EXCEPT !.hdr = disk', !.pc = "slot", !.todo = @ \ {old}])
           \/ /\ j.hdr.token = NoToken \/ old \notin j.hdr.token
              /\ Goes(u, [j EXCEPT !.pc = "slot", !.todo = @ \ {old}]) /\ UNCHANGED disk
           \/ Goes(u, [j EXCEPT !.pc = "cleanup"]) /\ UNCHANGED disk
        /\ UNCHANGED <<area, owed, made, consent, cmds>> /\ NoFault

(* crypt_reencrypt_init_by_passphrase may refuse, or fail when it has      *)
(* committed; its keyslot is a free one.                                   *)
InitReencrypt(u) ==
    LET j == job[u] IN
    /\ j.pc = "slot" /\ j.todo = {}
    /\ \/ /\ Current(u) /\ Free(j.hdr) # {}
          /\ disk' = Written([j.hdr EXCEPT !.newvk = j.key,
                                           !.slots[First(Free(j.hdr))] = [key |-> ReencryptArea, salt |-> 0]])
          /\ owed' = IF j.slot = Any THEN owed ELSE owed \cap {area[s].pass : s \in j.made}
          /\ \E pc \in {"run", "cleanup"} : Goes(u, [j EXCEPT !.hdr = disk', !.pc = pc])
       \/ Goes(u, [j EXCEPT !.pc = "cleanup"]) /\ UNCHANGED <<disk, owed>>
    /\ UNCHANGED <<area, made, consent, cmds>> /\ NoFault

(* Mutation: the keyslots of a failed attempt are left.                    *)
CleanupNothing(u) ==
    /\ job[u].pc = "cleanup"
    /\ Ends(u)
    /\ UNCHANGED <<disk, area, owed, made, consent, cmds>> /\ NoFault

(* The end of a failed attempt: keyslots with the new key are removed,     *)
(* unless the reencryption is initialised.                                 *)
Cleanup(u) ==
    LET j == job[u]
        s == First(j.made)
    IN  /\ j.pc = "cleanup"
        /\ \/ /\ j.made # {} /\ ~Reencrypting(j.hdr)
              /\ \/ Destroys(u, s) /\ Goes(u, [j EXCEPT !.hdr = disk', !.made = @ \ {s}])
                 \/ ~CanDestroy(u, s) /\ Goes(u, [j EXCEPT !.made = @ \ {s}]) /\ UNCHANGED <<disk, area>>
           \/ (j.made = {} \/ Reencrypting(j.hdr)) /\ Ends(u) /\ UNCHANGED <<disk, area>>
        /\ UNCHANGED <<owed, made, consent, cmds>> /\ NoFault

(* crypt_reencrypt, to its end or interrupted: the keyslots of the old key *)
(* go, with the one of the reencryption.                                   *)
Run(u) ==
    LET h == job[u].hdr
        gone == {s \in Slot : h.slots[s].key \in {h.vk, ReencryptArea}}
    IN  /\ job[u].pc = "run"
        /\ \/ /\ disk' = Written([h EXCEPT !.vk = h.newvk, !.newvk = NoKey,
                                           !.slots = [s \in Slot |-> IF s \in gone THEN NoSlot ELSE @[s]],
                                           !.token = IF @ = NoToken THEN @ ELSE @ \ gone])
              /\ area' = [s \in Slot |-> IF s \in gone THEN Wiped ELSE area[s]]
           \/ UNCHANGED <<disk, area>>
        /\ Ends(u)
        /\ UNCHANGED <<owed, made, consent, cmds>> /\ NoFault

-----------------------------------------------------------------------------
(* A command is killed between two of its steps.                           *)
Die(u) ==
    /\ ~Idle(u)
    /\ deaths < world.deaths /\ deaths' = deaths + 1
    /\ Ends(u)
    /\ UNCHANGED <<disk, area, owed, consent, made, world, cmds>>

Next ==
    \E u \in world.users :
       \/ action_luksKillSlot(u) \/ verify_keyslot(u) \/ DestroySlot(u)
       \/ action_luksRemoveKey(u) \/ SelectKey(u)
       \/ action_luksErase(u) \/ EraseSlot(u)
       \/ action_luksAddKey(u) \/ CheckPassphrase(u) \/ AddKey(u)
       \/ action_luksChangeKey(u) \/ CheckChanged(u) \/ ChangeKey(u)
       \/ action_luksFormat(u) \/ FirstKey(u)
       \/ action_token(u) \/ TokenAdd(u) \/ TokenAssign(u) \/ TokenDrop(u)
       \/ action_reencrypt(u) \/ action_reencrypt_load(u) \/ fill_keyslot_passwords(u)
       \/ AddNewSlot(u) \/ assign_tokens(u) \/ InitReencrypt(u) \/ Cleanup(u) \/ Run(u)
       \/ Die(u)

Spec == Init /\ [][Next]_vars

-----------------------------------------------------------------------------
(* Properties                                                              *)

Keys == {NoKey} \cup 0..made

(* Every value is in its range, and a reencryption never finds that it has *)
(* no keyslot left for a new key or for itself (_check_luks2_keyslots).    *)
ToolTypeOK ==
    /\ disk.type \in {"luks1", "luks2", "none"}
    /\ \A s \in Slot : disk.slots[s].key \in Keys /\ disk.slots[s].salt \in 0..made
    /\ \A s \in Slot : area[s].pass \in Passphrase \cup {NoPass} /\ area[s].salt \in 0..made
    /\ disk.token \subseteq Slot \/ disk.token = NoToken
    /\ owed \subseteq Passphrase
    /\ \A u \in Users : job[u].pc \in {"slot", "tokens"} =>
         Cardinality(Free(job[u].hdr)) > Cardinality(job[u].todo) - (IF job[u].pc = "tokens" THEN 1 ELSE 0)

(* Whatever the users do at a time, a passphrase opens the device until    *)
(* one of them removes or changes it, or reencrypts without it: luksAddKey *)
(* and luksChangeKey keep what they promise, and a reencryption, finished  *)
(* or not, keeps all passphrases it has asked for.                         *)
PassphrasesOwed == \A p \in owed : Opened(disk, Slot, p) # {}

(* A device nobody can open any more: somebody was asked before, or has    *)
(* said that he does not want to be (the ACTIVE_LAST questions).           *)
LastOneAsked == (\A p \in Passphrase : Opened(disk, Slot, p) = {}) => consent

(* While a device is reencrypted its token is assigned to the new keyslot  *)
(* of every passphrase it had, so that it still opens it afterwards        *)
(* (assign_tokens).                                                        *)
TokenFollows ==
    disk.token # NoToken /\ Reencrypting(disk) =>
      \A s \in disk.token, t \in Slot :
        disk.slots[s].key = disk.vk /\ disk.slots[t].key = disk.newvk /\ area[s].pass = area[t].pass
          => t \in disk.token

(* A reencryption that fails before it is initialised leaves no keyslot of *)
(* its own behind, when nobody else has written the header and it was not  *)
(* killed.                                                                 *)
NoKeyslotLeft ==
    Cardinality(world.users) = 1 /\ deaths = 0 /\ "add" \notin world.ops /\ (\A u \in Users : Idle(u)) =>
      \A s \in Slot \ world.unbound : disk.slots[s].key \in Bound(disk) \cup {NoKey, ReencryptArea}

(* A reencryption finds room for its keyslots, takes tokens along and      *)
(* cleans up (_check_luks2_keyslots, assign_tokens, action_reencrypt_luks2). *)
KeyslotsFollow == ToolTypeOK /\ TokenFollows /\ NoKeyslotLeft
=============================================================================
