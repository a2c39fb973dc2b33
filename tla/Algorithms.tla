----------------------------- MODULE Algorithms ------------------------------
(***************************************************************************)
(* Calls of the library's algorithms on bounded inputs, and what they      *)
(* promise: block I/O and wiping (BlockIO), BitLocker volumes (Bitlk),     *)
(* dm-verity trees, parity and superblocks (Verity), device-mapper tables  *)
(* (DmTables), key files and the splitter of keyslot areas (KeyMaterial)   *)
(* and the validation of LUKS2 metadata (Validate).  A behaviour is a      *)
(* sequence of calls; call holds the input and the result of the last one. *)
(***************************************************************************)
EXTENDS BlockIO, Bitlk, Verity, DmTables, KeyMaterial, Validate

CONSTANTS
  Requests,      \* reads and writes: [f, bsize, offset, length]
  Wipes,         \* wipes: [f, bsize, offset, length, block, pattern, rotational, stop]
  Layouts,       \* BitLocker volumes: [size, metadata, header, headerSize]
  Superblocks,   \* BitLocker metadata
  Passwords,     \* what a user gives to open one
  Trees,         \* verity devices: [version, salt, bits, data, position]
  Parities,      \* parity areas: [rsn, block_size, data_size, meta, hash_block, same, fec_offset]
  CryptTargets, VerityTargets, IntegrityTargets,
  Formats,       \* parameters of a verity format
  KeyFiles,      \* reads of a key: [f, offset, size, eol]
  LoopKeyFiles,  \* loop-AES key files: [buffer, gpg, hash, key_size]
  Splits,        \* keys to split: [key, random, fails, digest]
  Metadata       \* LUKS2 metadata to validate

VARIABLE call

Idle == [op |-> "idle"]

\* The data of a write: sectors that are nowhere on the file before.
Buffer(n) == [i \in 1..n |-> 100 + i]

WriteCall ==
  \E q \in Requests :
    call' = [op |-> "write", in |-> q, out |-> write_lseek_blockwise(q.f, q.bsize, Buffer(q.length), q.offset)]

ReadCall ==
  \E q \in Requests :
    call' = [op |-> "read", in |-> q, out |-> read_lseek_blockwise(q.f, q.bsize, q.length, q.offset)]

WipeCall ==
  \E q \in Wipes :
    call' = [op |-> "wipe", in |-> q,
             out |-> crypt_wipe_device(q.f, q.pattern, q.rotational, q.offset, q.length, q.block, q.bsize, q.stop)]

MapBitlkCall ==
  \E v \in Layouts : call' = [op |-> "bitlk", in |-> v, out |-> _activate(v)]

OpenBitlkCall ==
  \E sb \in Superblocks, password \in Passwords, ccm \in BOOLEAN :
    call' = [op |-> "open", in |-> [sb |-> sb, password |-> password, ccm |-> ccm],
             out |-> BITLK_activate_by_passphrase(sb, password, ccm)]

\* The hash device before the tree is created: other content, one block longer
\* than the tree.
Raw(v) == [p \in 0..AreaEnd(v.bits, Len(v.data), v.position) |->
             [digests |-> [k \in 1..2^v.bits |-> <<1>>], pad |-> [k \in 1..2^v.bits |-> 1], spare |-> 1]]

\* What may be changed between creation and verification: nothing, a data block,
\* a digest, its padding, the spare area of a hash block, or the root hash.
Damages(v) ==
  {[what |-> w, p |-> 0, k |-> 0] : w \in {"none", "root"}}
  \cup {[what |-> "data", p |-> 0, k |-> i] : i \in DOMAIN v.data}
  \cup {[what |-> w, p |-> p, k |-> k] :
          w \in IF v.version = 1 THEN {"digests", "pad"} ELSE {"digests"}, p \in DOMAIN Raw(v), k \in 1..2^v.bits}
  \cup {[what |-> "spare", p |-> p, k |-> 0] : p \in DOMAIN Raw(v)}

DamagedDevice(device, d) ==
  CASE d.what = "digests" -> [device EXCEPT ![d.p].digests[d.k] = <<0>>]
    [] d.what = "pad" -> [device EXCEPT ![d.p].pad[d.k] = 7]
    [] d.what = "spare" -> [device EXCEPT ![d.p].spare = 7]
    [] OTHER -> device

VerityCall ==
  \E v \in Trees : \E d \in Damages(v) :
    LET made == VERITY_create(v, Raw(v))
    IN  call' = [op |-> "verity", in |-> [v |-> v, damage |-> d],
                 out |-> VERITY_verify(IF d.what = "data" THEN [v EXCEPT !.data[d.k] = <<0>>] ELSE v,
                                       DamagedDevice(made.device, d),
                                       IF d.what = "root" THEN <<0>> ELSE made.root)]

ParityCall ==
  \E q \in Parities :
    call' = [op |-> "parity", in |-> q,
             out |-> FecContext(q.rsn, q.block_size,
                       q.block_size * VERITY_FEC_blocks(q.data_size, q.meta, q.fec_offset, q.same, q.hash_block, q.block_size))]

\* The kernel reports the arguments of a table in the order it was given them or
\* in another, of which the reverse is taken.
Reversed(args) == [i \in DOMAIN args |-> args[Len(args) + 1 - i]]
Reported(p) ==
  {p} \cup IF Len(p.tail) < 2 THEN {} ELSE {[p EXCEPT !.tail = <<p.tail[1]>> \o Reversed(Tail(p.tail))]}

\* The same for verity, whose values are words of their own behind their names.
ReportedPairs(p, count) ==
  LET flags == SubSeq(p.tail, 2, 1 + count)
      pairs == SubSeq(p.tail, 2 + count, Len(p.tail))
      back == [i \in DOMAIN pairs |-> pairs[IF i % 2 = 1 THEN Len(pairs) - i ELSE Len(pairs) + 2 - i]]
  IN  {p} \cup IF p.tail = <<>> THEN {} ELSE {[p EXCEPT !.tail = <<p.tail[1]>> \o back \o Reversed(flags)]}

CryptTableCall ==
  \E t \in CryptTargets : \E p \in Reported(get_dm_crypt_params(t)) :
    call' = [op |-> "crypt", in |-> t, out |-> _dm_target_query_crypt(p)]

VerityTableCall ==
  \E t \in VerityTargets : \E p \in ReportedPairs(get_dm_verity_params(t), Cardinality(CompatibleFlags(t.flags))) :
    call' = [op |-> "verity table", in |-> t, out |-> _dm_target_query_verity(p)]

\* What the kernel makes of a table that was cut is not known.
IntegrityTableCall ==
  \E t \in IntegrityTargets :
    LET made == get_dm_integrity_params(t)
    IN  \/ made = Failed /\ call' = [op |-> "integrity", in |-> t, made |-> "none"]
        \/ made # Failed /\ made[1].cut /\ call' = [op |-> "integrity", in |-> t, made |-> "cut"]
        \/ /\ made # Failed /\ ~made[1].cut
           /\ \E p \in Reported(made[1]) :
                call' = [op |-> "integrity", in |-> t, made |-> "whole", out |-> _dm_target_query_integrity(p)]

FormatCall ==
  \E q \in Formats :
    LET made == _crypt_format_verity(q)
    IN  call' = [op |-> "format", in |-> q, out |-> made,
                 load |-> IF made.r = 0 THEN _crypt_load_verity(made.sb, q.hash_offset, q.no_header) ELSE made]

KeyFileCall ==
  \E q \in KeyFiles : call' = [op |-> "keyfile", in |-> q, out |-> crypt_keyfile_device_read(q.f, q.offset, q.size, q.eol)]

LoopKeysCall ==
  \E q \in LoopKeyFiles :
    call' = [op |-> "loopaes", in |-> q, out |-> LOOPAES_parse_keyfile(q.buffer, q.gpg, q.hash, q.key_size)]

\* Split, perhaps with one stripe changed on the disk, and merged.
SplitCall ==
  \E q \in Splits : \E i \in 1..(Len(q.random) + 1), b \in [DOMAIN q.key -> 0..1] :
    LET split == AF_split(q.key, q.random, q.fails, q.digest)
    IN  call' = IF split.r < 0 THEN [op |-> "split", in |-> q, split |-> split]
                ELSE [op |-> "split", in |-> q, split |-> split, stripe |-> i, changed |-> b,
                      out |-> AF_merge([split.stripes EXCEPT ![i] = b], q.digest)]

ValidateCall ==
  \E h \in Metadata : call' = [op |-> "validate", in |-> h, out |-> LUKS2_hdr_validate(h)]

Return == call # Idle /\ call' = Idle

Init == call = Idle

Next ==
  \/ /\ call = Idle
     /\ \/ WriteCall \/ ReadCall \/ WipeCall \/ MapBitlkCall \/ OpenBitlkCall
        \/ VerityCall \/ ParityCall \/ CryptTableCall \/ VerityTableCall \/ IntegrityTableCall
        \/ FormatCall \/ KeyFileCall \/ LoopKeysCall \/ SplitCall \/ ValidateCall
  \/ Return

Spec == Init /\ [][Next]_call

-----------------------------------------------------------------------------
InRange(i, offset, length) == i > offset /\ i <= offset + length

\* The end of the block with the last sector of a range.
BlockEnd(bsize, offset, length) == ((offset + length + bsize - 1) \div bsize) * bsize

\* A write through blocks changes of the sectors that were there exactly those it
\* was asked to, with neighbours in the same block kept (write_lseek_blockwise);
\* when it fails, every sector is still its old or its new self; and it does not
\* fail unless a sector of the blocks it touches does.  A device stays as long as
\* it is; a file that ends before the last block does grows up to the end of that
\* block, with zeroes around what was written, but in a block that the request
\* begins inside of with what the buffer happened to hold.
WriteExact ==
  call.op = "write" =>
    LET q == call.in
        old == q.f.data
        new == call.out.f.data
        block(i) == (i - 1) \div q.bsize
        begun == q.offset % q.bsize # 0
    IN  /\ \A i \in DOMAIN old : ~InRange(i, q.offset, q.length) => new[i] = old[i]
        /\ \A i \in DOMAIN old : InRange(i, q.offset, q.length) => new[i] \in {old[i], 100 + i - q.offset}
        /\ Len(new) <= Most2(Len(old), Least2(q.f.limit, BlockEnd(q.bsize, q.offset, q.length)))
        /\ \A i \in (Len(old) + 1)..Len(new) :
             new[i] = IF InRange(i, q.offset, q.length) THEN 100 + i - q.offset
                      ELSE IF begun /\ block(i) = block(q.offset + 1) THEN Garbage ELSE Zeroes
        /\ call.out.ret = q.length => SubSeq(new, q.offset + 1, q.offset + q.length) = Buffer(q.length)
        /\ (/\ q.offset + q.length <= Len(old)
            /\ ~ \E b \in q.f.bad, i \in (q.offset + 1)..(q.offset + q.length) : block(b) = block(i))
              => call.out.ret = q.length

\* A read through blocks returns the sectors it was asked for or fails, and fails
\* only for a reason (read_lseek_blockwise).
ReadExact ==
  call.op = "read" =>
    LET q == call.in
        block(i) == (i - 1) \div q.bsize
    IN  /\ call.out.ret \in {-1, q.length}
        /\ call.out.ret = q.length => call.out.buf = SubSeq(q.f.data, q.offset + 1, q.offset + q.length)
        /\ (/\ q.offset + q.length <= Len(q.f.data)
            /\ ~ \E b \in q.f.bad, i \in (q.offset + 1)..(q.offset + q.length) : block(b) = block(i))
              => call.out.ret = q.length

\* A wipe that succeeds leaves nothing of the range and everything else that was
\* there; one that is interrupted or fails changes nothing outside; and the errors
\* for which libcryptsetup.h promises "no IO was performed" come with no change
\* (crypt_wipe_device).  A file that ends inside the last block of the range grows
\* to the end of the block, with zeroes.
WipeExact ==
  call.op = "wipe" =>
    LET q == call.in
        old == q.f.data
        new == call.out.f.data
        length == IF q.length = 0 THEN Len(old) - q.offset ELSE q.length
    IN  /\ \A i \in DOMAIN old : ~InRange(i, q.offset, length) => new[i] = old[i]
        /\ Len(new) <= Most2(Len(old), Least2(q.f.limit, BlockEnd(q.bsize, q.offset, length)))
        /\ \A i \in (Len(old) + 1)..Len(new) : new[i] = Zeroes
        /\ call.out.ret = 0 => \A i \in (q.offset + 1)..(q.offset + length) : new[i] = Wiped
        /\ call.out.ret = EINVAL => new = old
        /\ (q.f.bad = {} /\ q.stop = 0 /\ q.pattern \in Patterns /\ length > 0) => call.out.ret = 0

\* The mapped BitLocker volume has every sector once: zeroes in place of the
\* metadata and of the moved header, the header at its start with the IV of where
\* it is stored, and the rest in place; and five gaps are not too many
\* (_activate).
VolumeTiled ==
  call.op = "bitlk" =>
    LET v == call.in
        t == call.out.table
        Hidden(s) == \/ \E i \in 1..3 : s >= v.metadata[i] /\ s < v.metadata[i] + MetadataSize
                     \/ s >= v.header /\ s < v.header + v.headerSize
    IN  /\ call.out.r = "done"
        /\ \A k \in DOMAIN t : t[k].offset = IF k = 1 THEN 0 ELSE SegEnd(t[k - 1])
        /\ SegEnd(t[Len(t)]) = v.size
        /\ \A k \in DOMAIN t : \A s \in t[k].offset..(SegEnd(t[k]) - 1) :
             /\ (t[k].type = "zero") = Hidden(s)
             /\ t[k].type = "crypt" => t[k].iv + s - t[k].offset = IF s < v.headerSize THEN v.header + s ELSE s

\* A volume opens exactly when it is wholly encrypted, keys can be decrypted and
\* what the user gives fits one of its VMKs, wherever that stands among the others,
\* and then with the key of its data (BITLK_read_sb, BITLK_get_volume_key).
OpensWithItsKey ==
  call.op = "open" =>
    LET sb == call.in.sb
        pw == call.in.password
        Vmks == {sb.entries[i].vmk : i \in {j \in DOMAIN sb.entries :
                   sb.entries[j].type = "vmk" /\ \A k \in 1..j : sb.entries[k].type # "end"}}
        Fits(k) == /\ k.secret = pw.text /\ k.opens = "fvek"
                   /\ \/ k.protection = "passphrase"
                      \/ k.protection = "recovery" /\ pw.form = "recovery"
                      \/ k.protection = "startup" /\ pw.form = "bek" /\ pw.guid = k.guid
    IN  /\ (call.out.r = 0) =
             /\ call.in.ccm /\ sb.state /\ sb.guid = "normal" /\ sb.cipher # "unknown" /\ sb.boot = "v2"
             /\ \A k \in Vmks : k.protection # "clear" /\ (k.protection \in Usable => k.known)
             /\ \E k \in Vmks : Fits(k)
        /\ call.out.r = 0 => call.out.key = "fvek"

\* A tree verifies right after its creation, and any change of data, digests,
\* padding, spare areas or root hash is noticed; blocks outside the tree do not
\* matter (VERITY_create, VERITY_verify).
DamageNoticed ==
  call.op = "verity" =>
    LET v == call.in.v
        d == call.in.damage
        outside == /\ d.what \in {"digests", "pad", "spare"}
                   /\ d.p < v.position \/ d.p >= AreaEnd(v.bits, Len(v.data), v.position)
    IN  (call.out = "ok") = (d.what = "none" \/ outside)

\* Each byte of the data and of the hash device behind the hash offset is in one
\* code word, nothing else is, and damage of as many neighbouring blocks as there
\* are rounds hits a code word only once (FEC_process_inputs, VERITY_FEC_blocks).
ParitySpread ==
  call.op = "parity" =>
    LET q == call.in
        c == call.out
        words == CodeWords(c)
        data == q.data_size * q.block_size
        inputs == <<[start |-> 0, count |-> data], [start |-> q.hash_block * q.block_size, count |-> c.size - data]>>
        end == IF q.same THEN q.fec_offset ELSE q.meta
        Bytes(w) == UNION {w[i] : i \in 0..(c.rsn - 1)}
    IN  /\ {InputOf(inputs, o) : o \in UNION {Bytes(w) : w \in words}}
             = ({1} \X (0..(data - 1))) \cup ({2} \X ((q.hash_block * q.block_size)..(end - 1)))
        /\ \A w1, w2 \in words : w1 # w2 => Bytes(w1) \cap Bytes(w2) = {}
        /\ \A w \in words : \A x, y \in Bytes(w) :
             x # y => (x \div c.block_size) - (y \div c.block_size) \notin (1 - c.rounds)..(c.rounds - 1)

\* What is read back from the kernel is the target that was set up, for every
\* combination of options and with the arguments in the order of the table or in
\* the reverse one: a refresh or a resize starts from it.  A null cipher has no
\* key, and incompatible verity flags are left out.
CryptReadBack ==
  call.op = "crypt" =>
    call.out = <<[call.in EXCEPT !.key = [size |-> IF call.in.cipher.cipher = "null" THEN 0 ELSE @.size,
                                         description |-> IF call.in.keyring /\ call.in.cipher.cipher # "null" THEN @.description ELSE None,
                                         key |-> IF call.in.keyring \/ call.in.cipher.cipher = "null" THEN None ELSE @.key],
                                !.keyring = @ /\ call.in.cipher.cipher # "null"]>>

VerityReadBack ==
  call.op = "verity table" =>
    \E flags \in {call.in.flags, call.in.flags \ {"ignore_corruption"}, call.in.flags \ {"restart_on_corruption"},
                  call.in.flags \ {"ignore_corruption", "restart_on_corruption"}} :
      /\ call.out = <<[call.in EXCEPT !.flags = flags]>>
      /\ Cardinality(flags \cap {"ignore_corruption", "restart_on_corruption", "panic_on_corruption"}) <= 1
      /\ (flags \cap {"ignore_corruption", "restart_on_corruption", "panic_on_corruption"} = {})
           = (call.in.flags \cap {"ignore_corruption", "restart_on_corruption", "panic_on_corruption"} = {})

\* Of an integrity target the keys of the journal are not read back, a journal
\* beyond the width of an unsigned int has another size, and a mode stands for one
\* set of flags; the rest is as it was.  There is no table at all only for a target
\* with more than five options, and only keys of a hundred bytes and more are cut,
\* with numbers of four digits (get_dm_integrity_params,
\* _dm_target_query_integrity).
IntegrityReadBack ==
  call.op = "integrity" =>
    LET t == call.in
        options == {f \in Fields : t.values[f] # <<>>} \cup (t.flags \cap SetOf(IntegrityFlags))
        bytes == KeyBytes(t, "integrity") + KeyBytes(t, "journal_integrity") + KeyBytes(t, "journal_crypt")
    IN  CASE call.made = "none" -> Cardinality(options) > 5
          [] call.made = "cut" -> bytes >= 100
          [] call.made = "whole" ->
               /\ call.out # Failed
               /\ LET back == call.out[1] IN
                  /\ back.device = t.device /\ back.offset = t.offset /\ back.tag = t.tag
                  /\ back.flags = (t.flags \cap SetOf(IntegrityFlags)) \cup
                                    IF "no_journal_bitmap" \in t.flags THEN {"no_journal", "no_journal_bitmap"}
                                    ELSE IF "recovery" \in t.flags THEN {"recovery"} ELSE t.flags \cap {"no_journal"}
                  /\ \A f \in Fields :
                       LET v == t.values[f] IN
                       CASE f \in {"journal_integrity", "journal_crypt"} -> back.values[f] = IF v = <<>> THEN <<>> ELSE <<v[1], 0>>
                         [] f = "journal_size" -> (v = <<>> \/ v[1] < 2^UnsignedBits) => back.values[f] = v
                         [] f = "sector_size" -> back.values[f] = IF v = <<>> THEN <<SectorSize>> ELSE v
                         [] OTHER -> back.values[f] = v

\* Tables are read back as they were written, but for what the code drops
\* (libdevmapper.c).
TableReadBack == CryptReadBack /\ VerityReadBack /\ IntegrityReadBack

\* The areas of a verity format that was accepted are apart: the data, the
\* superblock, the tree and the parity, where they share a device; and what is
\* loaded from the superblock is what was formatted (_crypt_format_verity,
\* VERITY_hash_offset_block, VERITY_read_sb).  The code rounds a hash offset
\* without a superblock down to a block, and compares the parity with neither the
\* block of the superblock nor the default number of data blocks: the README has
\* these cases.
VerityAreasApart ==
  (call.op = "format" /\ call.out.r = 0) =>
    LET q == call.in
        hdr == call.out.hdr
        data == hdr.data_size * q.data_block
        tree == VERITY_hash_offset_block(hdr) * q.hash_block
        treeEnd == AreaEnd(HashBits(q.hash_block), hdr.data_size, VERITY_hash_offset_block(hdr)) * q.hash_block
        blockwise == q.no_header => q.hash_offset % q.hash_block = 0
        OnData == q.fec = "data" \/ (q.fec = "hash" /\ q.same)
        OnHash == q.fec = "hash" \/ (q.fec = "data" /\ q.same)
    IN  hdr.data_size > 0 =>
          /\ q.same /\ blockwise => data <= tree /\ data <= q.hash_offset
          /\ ~q.no_header => q.hash_offset + SbSize <= tree /\ call.load.r = 0
                               /\ call.load.hdr = [hdr EXCEPT !.hash_name = "sha256"]
          /\ OnData => data <= q.fec_offset
          /\ OnHash /\ blockwise /\ q.no_header /\ q.data_size > 0 => treeEnd <= q.fec_offset

\* A key is read whole or not at all: up to the end, the newline or the size that
\* was asked for, at most the maximum, whatever buffers it goes through; nothing
\* behind the newline is taken from the input; and a read fails only for a reason
\* (crypt_keyfile_device_read).
KeyReadWhole ==
  call.op = "keyfile" =>
    LET q == call.in
        f == q.f
        rest == SubSeq(f.data, q.offset + 1, Len(f.data))
        newlines == {i \in DOMAIN rest : q.eol /\ rest[i] = "n"}
        ended == newlines # {}
        first == CHOOSE i \in newlines : \A j \in newlines : i <= j
        key == IF ended THEN SubSeq(rest, 1, first - 1) ELSE rest
        limit == IF q.size = 0 THEN KeyfileMax + 1 ELSE q.size
        taken == IF Len(key) >= limit THEN limit ELSE IF ended THEN first ELSE Len(key)
        start == IF f.kind = "pipe" THEN 0 ELSE q.offset
    IN  /\ (call.out.r = 0) =
             /\ f.kind \notin {"missing", "terminal"}
             /\ q.offset <= Len(f.data)
             /\ IF q.size = 0 THEN Len(key) <= KeyfileMax ELSE Len(key) >= q.size
             /\ key # <<>> \/ f.kind = "regular" \/ ended
             /\ f.bad \cap (start + 1)..(q.offset + taken) = {}
        /\ call.out.r = 0 => /\ call.out.key = IF q.size = 0 THEN key ELSE SubSeq(key, 1, q.size)
                             /\ call.out.pos = q.offset + taken

\* A loop-AES key file is accepted when it is one, ManyKeys or ManyKeys + 1 keys of
\* one length, each with its terminator, and then every key has its place in the
\* volume key (LOOPAES_parse_keyfile).
LoopKeysParsed ==
  call.op = "loopaes" =>
    LET q == call.in
        b == q.buffer
        Ends == {i \in DOMAIN b : b[i] \in {"n", "0"}}
        Starts == {i \in DOMAIN b \ Ends : i = 1 \/ i - 1 \in Ends}
        LastOf(i) == CHOOSE j \in i..Len(b) : (j = Len(b) \/ j + 1 \in Ends) /\ i..j \cap Ends = {}
        ok == /\ Starts # {} /\ 1 \in Starts /\ Len(b) \in Ends
              /\ Cardinality(Starts) \in {1, ManyKeys, ManyKeys + 1}
              /\ \A i, j \in Starts : LastOf(i) - i = LastOf(j) - j
              /\ ~q.gpg /\ (q.hash # "none" \/ q.key_size \in {16, 24, 32}) /\ q.key_size > 0
    IN  /\ (call.out.r = 0) = ok
        /\ call.out.r = 0 =>
             /\ Len(call.out.vk) = Cardinality(Starts)
             /\ \A i \in Starts : call.out.vk[Cardinality({j \in Starts : j <= i})][3] = SubSeq(b, i, LastOf(i))

\* The stripes of a keyslot area give the key back, and with any one of them
\* changed they do not, which is what wiping a part of the area relies on: the key
\* is another one in exactly those blocks of the size of a digest in which the
\* stripe is.  A key is not split without a known hash and randomness for all
\* stripes (AF_split, AF_merge, diffuse).
AllStripesNeeded ==
  call.op = "split" =>
    LET q == call.in
        BlockOf(j) == {k \in DOMAIN q.key : q.digest = 0 \/ (k - 1) \div q.digest = (j - 1) \div q.digest}
        Same(a, b, J) == \A j \in J : a[j] = b[j]
    IN  /\ (call.split.r = 0) = (q.random = <<>> \/ (q.digest > 0 /\ q.fails \notin DOMAIN q.random))
        /\ call.split.r = 0 =>
             /\ call.out.r = 0
             /\ \A j \in DOMAIN q.key :
                  Same(call.out.key, q.key, BlockOf(j)) = Same(call.changed, call.split.stripes[call.stripe], BlockOf(j))

\* Metadata that is accepted has no two things in one place: the header copies,
\* the keyslot areas, and (unless the header is detached) the regular segments;
\* these are numbered before the backup segments, without a gap, and nothing is
\* behind one that takes the rest of the device; every crypt segment has a digest,
\* and every reference leads to a keyslot or a segment (LUKS2_hdr_validate).  It
\* holds for metadata in the order of its keys whose areas and segments end within
\* the width of an offset: the README has the other cases.
MetadataSound ==
  (call.op = "validate" /\ call.out) =>
    LET h == call.in
        s == h.segments
        regular == {g \in Members(s) : ~g.backup}
        SegPlace(g) == g.offset..(IF g.size = Dynamic THEN UintMax ELSE g.offset + g.size - 1)
        AreaPlace(k) == k.offset..(k.offset + k.length - 1)
        header == 0..(2 * h.config.metadata_size - 1)
        Apart(f, g) == f \cap g = {}
        usual == /\ \A i, j \in DOMAIN s : i < j => s[i].key < s[j].key
                 /\ \A g \in Members(s) : g.offset + g.size <= UintMax
                 /\ \A k \in Members(h.keyslots) : k.offset + k.length <= UintMax
    IN  usual =>
          /\ \A f, g \in regular : f # g => Apart(SegPlace(f), SegPlace(g))
          /\ \A k, l \in Members(h.keyslots) : k # l => Apart(AreaPlace(k), AreaPlace(l)) /\ Apart(AreaPlace(k), header)
          /\ (\A g \in regular : g.offset # 0) =>
               \A g \in regular : /\ Apart(SegPlace(g), header)
                                  /\ \A k \in Members(h.keyslots) : Apart(SegPlace(g), AreaPlace(k))
          /\ Keys(s) = 0..(Len(s) - 1) /\ regular # {}
          /\ {g.key : g \in regular} = 0..(Cardinality(regular) - 1)
          /\ \A g \in Members(s) : g.type = "crypt" => \E d \in Members(h.digests) : g.key \in d.segments
          /\ \A m \in Members(h.digests) \cup Members(h.tokens) : m.keyslots \subseteq Keys(h.keyslots)
          /\ \A d \in Members(h.digests) : d.segments \subseteq Keys(s)

\* Reads, writes and wipes touch what they are asked to and nothing else that was
\* there, and a file grows by no more than the rest of a block (utils_io.c,
\* utils_wipe.c).
BlockIOExact == WriteExact /\ ReadExact /\ WipeExact

\* A BitLocker volume opens with its key and shows every sector (bitlk.c).
BitlkReadable == VolumeTiled /\ OpensWithItsKey

\* What verity formats it verifies, protects and finds again (lib/verity).
VeritySound == DamageNoticed /\ ParitySpread /\ VerityAreasApart

\* Keys come out of files and keyslot areas whole or not at all (utils.c,
\* loopaes.c, af.c).
KeysRead == KeyReadWhole /\ LoopKeysParsed /\ AllStripesNeeded
=============================================================================
