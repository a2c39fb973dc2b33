---------------------------- MODULE MCAlgorithms -----------------------------
(* Inputs for the algorithms: blocks of 4 sectors on devices of 8, and files    *)
(* that end inside a block; BitLocker volumes of 16 sectors; trees of up to 5   *)
(* data blocks; all options of the tables.                                      *)
EXTENDS Algorithms

Sectors(n) == [i \in 1..n |-> i]
Device(n, bad) == [data |-> Sectors(n), limit |-> n, bad |-> bad]
File(n, bad) == [data |-> Sectors(n), limit |-> 100, bad |-> bad]
Bad(n) == {{}} \cup {{i} : i \in 1..n}

MCRequests ==
  [f : {Device(8, b) : b \in Bad(8)} \cup {File(6, b) : b \in Bad(6)}, bsize : {4}, offset : 0..8, length : 0..8]

\* Wipes whose blocks are whole device blocks, or that take one block, or that
\* seek before each block (see the README on others).
MCWipes ==
  {q \in [f : {Device(8, b) : b \in {{}, {3}, {6}}} \cup {File(6, {})}, bsize : {2, 4}, offset : {0, 2, 4, 6, 8}, length : {0, 2, 3, 6, 8},
          block : 1..8, pattern : Patterns \cup {"unknown"}, rotational : BOOLEAN, stop : 0..3] :
     /\ q.offset % q.bsize = 0 /\ q.offset + q.length <= Len(q.f.data)
     /\ \/ q.block % q.bsize = 0
        \/ q.length > 0 /\ q.block >= q.length
        \/ q.pattern = "special" /\ q.rotational}

MCLayouts ==
  {v \in [size : {16}, metadata : {m \in [1..3 -> 1..13] : m[1] + 2 <= m[2] /\ m[2] + 2 <= m[3]}, header : 1..14, headerSize : 1..2] :
     /\ v.header >= v.headerSize /\ v.header + v.headerSize < 16
     /\ \A i \in 1..3 : /\ v.metadata[i] >= v.headerSize
                        /\ v.metadata[i] + MetadataSize <= v.header \/ v.header + v.headerSize <= v.metadata[i]}

Vmk(protection, secret, guid, known, opens) ==
  [protection |-> protection, secret |-> secret, guid |-> guid, known |-> known, opens |-> opens]
Vmks == {Vmk("passphrase", "a", "g0", TRUE, "fvek"), Vmk("passphrase", "b", "g0", TRUE, "other"),
         Vmk("recovery", "r", "g0", TRUE, "fvek"), Vmk("startup", "s", "g1", TRUE, "fvek"),
         Vmk("tpm", "-", "g0", FALSE, "fvek"), Vmk("clear", "-", "g0", TRUE, "fvek"), Vmk("passphrase", "c", "g0", FALSE, "fvek")}
VmkEntry(k) == [type |-> "vmk", vmk |-> k, key |-> "none"]
Fvek == [type |-> "fvek", vmk |-> Vmk("none", "-", "-", TRUE, "-"), key |-> "fvek"]
Entry(type) == [Fvek EXCEPT !.type = type]
EntryLists ==
  LET Lists == UNION {[1..n -> {VmkEntry(k) : k \in Vmks}] : n \in 1..3}
  IN  {l \o <<Fvek>> : l \in Lists} \cup {<<Entry("volume_header"), Fvek>> \o l : l \in Lists}
      \cup {<<Fvek, l[1], Entry("end"), l[2]>> : l \in [1..2 -> {VmkEntry(k) : k \in Vmks}]}
Sb(entries, state, guid, boot, cipher) ==
  [signature |-> "bitlk", boot |-> boot, sector_size |-> 512, guid |-> guid, state |-> state, cipher |-> cipher, entries |-> entries]
MCSuperblocks ==
  {Sb(e, TRUE, "normal", "v2", "xts") : e \in EntryLists}
  \cup {Sb(<<Fvek, VmkEntry(k)>>, state, guid, boot, cipher) :
          k \in Vmks, state \in BOOLEAN, guid \in {"normal", "eow", "unknown"}, boot \in {"v1", "v2", "other"}, cipher \in {"xts", "unknown"}}
MCPasswords ==
  {[text |-> t, form |-> f, guid |-> g] : t \in {"a", "b", "c", "r", "s", "x"}, f \in {"text"}, g \in {"g0"}}
  \cup {[text |-> "r", form |-> "recovery", guid |-> "g0"], [text |-> "s", form |-> "bek", guid |-> "g1"],
        [text |-> "s", form |-> "bek", guid |-> "g2"]}

MCTrees ==
  {[version |-> w, salt |-> "salt", bits |-> b, data |-> [i \in 1..n |-> <<i>>], position |-> p] :
     w \in 0..1, b \in 1..2, n \in 1..5, p \in 0..1}

MCParities ==
  {q \in [rsn : 2..3, block_size : {2}, data_size : 1..5, meta : {2, 4, 8, 10}, hash_block : 0..1, same : BOOLEAN, fec_offset : {2, 6}] :
     q.fec_offset <= q.meta}

CryptBase(c, integrity) ==
  [cipher |-> c, integrity |-> integrity, tag |-> IF integrity = None THEN 0 ELSE 16, keyring |-> FALSE,
   key |-> [size |-> 32, description |-> "cryptsetup:uuid-d0", key |-> "k"], iv_offset |-> 3, device |-> "7:0", offset |-> 8,
   sector_size |-> 512, flags |-> {}]
Cipher(c, mode, iv) == [cipher |-> c, mode |-> mode, iv |-> iv]
MCCryptTargets ==
  {[CryptBase(c[1], c[2]) EXCEPT !.flags = f, !.sector_size = s, !.keyring = k] :
     c \in {<<Cipher("aes", "xts", "plain64"), None>>, <<Cipher("aes", "xts", "plain64"), "none:">>,
            <<Cipher("aes", "ccm", "random"), "aead">>, <<Cipher("aes", "gcm", "random"), "aead">>,
            <<Cipher("chacha20", "", "random"), "poly1305">>, <<Cipher("aes", "cbc", "essiv:sha256"), "hmac-sha256">>,
            <<Cipher("null", "ecb", "plain"), None>>},
     f \in SUBSET SetOf(CryptFlags), s \in {512, 4096}, k \in BOOLEAN}

MCVerityTargets ==
  {[hash_type |-> 1, device |-> "7:0", hash_device |-> "7:1", data_block_size |-> 4096, hash_block_size |-> 4096, data_size |-> 5,
    hash_offset |-> 1, hash_name |-> "sha256", root_hash |-> "root", salt |-> salt, flags |-> f, fec |-> fec, sig |-> sig] :
     salt \in {None, "salt"}, f \in SUBSET SetOf(VerityFlags),
     fec \in {NoFec, [device |-> "7:2", start |-> 1, blocks |-> 6, roots |-> 2]}, sig \in {None, "key"}}

\* All combinations of fields, with keys or without; a journal beyond an unsigned
\* int, and long keys; all flags.
Modes == {{}, {"no_journal"}, {"no_journal", "no_journal_bitmap"}, {"recovery"}, {"no_journal", "recovery"}}
FieldValue(f, bytes, journal) ==
  CASE f = "journal_size" -> <<journal>> [] f \in Numbers -> <<4096>>
    [] f \in Algs -> <<"hmac(sha256)", bytes>> [] OTHER -> <<"7:1">>
IntegrityTarget(set, flags, bytes, journal) ==
  [device |-> "7:0", offset |-> 0, tag |-> 4, flags |-> flags,
   values |-> [f \in Fields |-> IF f \in set THEN FieldValue(f, bytes, journal) ELSE <<>>]]
MCIntegrityTargets ==
  {IntegrityTarget(set, mode, bytes, 8192) : set \in SUBSET Fields, mode \in Modes, bytes \in {0, 32}}
  \cup {IntegrityTarget(set, {}, bytes, journal) : set \in SUBSET (Algs \cup {"journal_size"}), bytes \in {64, 110, 128}, journal \in {8192, 2^20 - 512, 2^20, 2^20 + 512}}
  \cup {IntegrityTarget(set, mode \cup f, 32, 8192) : set \in {{}, Algs, Fields}, mode \in Modes, f \in SUBSET SetOf(IntegrityFlags)}

MCFormats ==
  {q \in [hash_type : {1}, data_block : {2, 4}, hash_block : {2, 4}, hash_offset : 0..12, fec_offset : {0, 6, 8, 12, 13, 16, 20}, data_size : 0..3,
          device_size : {8}, same : BOOLEAN, fec : {"none", "data", "hash", "own"}, no_header : BOOLEAN, hash_name : {"SHA256"}, salt : {"salt"}] :
     q.fec = "none" => q.fec_offset = 0}
  \cup [hash_type : 0..2, data_block : {2, 3, 16}, hash_block : {2, 5}, hash_offset : {4}, fec_offset : {0}, data_size : {2}, device_size : {8},
        same : {TRUE}, fec : {"none"}, no_header : BOOLEAN, hash_name : {"sha256", "SHA256", "none"}, salt : {"salt"}]

Text(n) == [i \in 1..n |-> "a"]
Texts == {Text(n) : n \in 0..12} \cup {Text(i) \o <<"n">> \o Text(j) : i \in 0..9, j \in 0..3} \cup {Text(i) \o <<"n">> \o Text(2) \o <<"n">> : i \in 0..4}
KeyFile(d, kind, bad) == [data |-> d, kind |-> kind, bad |-> bad]
MCKeyFiles ==
  {[f |-> KeyFile(d, kind, bad), offset |-> o, size |-> n, eol |-> e] :
     d \in Texts, kind \in {"regular", "redirected", "pipe"}, bad \in {{}, {2}, {7}}, o \in 0..3, n \in {0, 1, 4, 9}, e \in BOOLEAN}
  \cup {[f |-> KeyFile(Text(2), kind, {}), offset |-> 0, size |-> 0, eol |-> FALSE] : kind \in {"missing", "terminal"}}

MCLoopKeyFiles ==
  {[buffer |-> b, gpg |-> FALSE, hash |-> "none", key_size |-> 16] : b \in UNION {[1..n -> {"a", "b", "n"}] : n \in 0..7}}
  \cup {[buffer |-> b, gpg |-> g, hash |-> h, key_size |-> k] :
          b \in {<<"a", "0">>, <<"a", "n", "b", "0">>, <<"a", "n", "0", "b", "n", "a", "n">>, <<"a", "n", "b", "n", "a", "n", "b", "n">>},
          g \in BOOLEAN, h \in {"none", "sha1"}, k \in {0, 16, 20, 32}}

\* Keys of several blocks, with padding, of one block and shorter than a digest;
\* hashes that are not known and stripes without randomness.
Bytes(n) == [1..n -> 0..1]
MCSplits ==
  [key : Bytes(3), random : UNION {[1..n -> Bytes(3)] : n \in 0..1}, fails : {0}, digest : 1..4]
  \cup [key : {<<0, 1, 1>>}, random : [1..2 -> Bytes(3)], fails : 0..2, digest : {0, 2}]
  \cup [key : {<<1, 0, 1, 1, 0>>}, random : [1..1 -> Bytes(5)], fails : {0}, digest : {2}]
  \cup [key : Bytes(3), random : {<<>>}, fails : {0}, digest : {0}]

Segment(k, type, o, n, backup) == [key |-> k, whole |-> TRUE, type |-> type, offset |-> o, size |-> n, backup |-> backup, sector |-> 2]
Digest(keyslots, segments) == [key |-> 0, whole |-> TRUE, keyslots |-> keyslots, segments |-> segments]
Keyslot(k, o, n) == [key |-> k, whole |-> TRUE, area |-> TRUE, offset |-> o, length |-> n]
Md(segments, keyslots, digests, tokens, m, n) ==
  [segments |-> segments, keyslots |-> keyslots, digests |-> digests, tokens |-> tokens,
   config |-> [whole |-> TRUE, metadata_size |-> m, keyslots_size |-> n]]
OneSegment == <<Segment(0, "crypt", 24, Dynamic, FALSE)>>
OneDigest == <<Digest({}, {0})>>
\* Two and three segments anywhere, with and without backup flags; two keyslot
\* areas anywhere; one segment against all header sizes; and references.
MCMetadata ==
  {Md(<<Segment(k[1], "linear", o[1], n[1], b[1]), Segment(k[2], "linear", o[2], n[2], b[2])>>, <<>>, <<>>, <<>>, 4, 4) :
     k \in {<<0, 1>>, <<1, 0>>, <<0, 2>>, <<1, 2>>, <<0, -1>>}, o \in [1..2 -> {0, 8, 12, 14, 20, 25}], n \in [1..2 -> {0, 3, 4, 6, 24}], b \in [1..2 -> BOOLEAN]}
  \cup {Md([i \in 1..3 |-> Segment(k[i], "linear", o[i], n[i], b[i])], <<>>, <<>>, <<>>, 4, 4) :
          k \in {<<0, 1, 2>>, <<0, 2, 1>>, <<2, 1, 0>>}, o \in [1..3 -> {12, 16, 20}], n \in [1..3 -> {0, 4}], b \in [1..3 -> BOOLEAN]}
  \cup {Md(OneSegment, <<Keyslot(0, o[1], n[1]), Keyslot(1, o[2], n[2])>>, OneDigest, <<>>, 4, 12) :
          o \in [1..2 -> {0, 6, 8, 10, 13, 18, 30}], n \in [1..2 -> {0, 1, 2, 4, 10, 31}]}
  \cup {Md(<<Segment(0, type, o, n, FALSE)>>, <<Keyslot(0, 8, 2)>>, digests, <<>>, m, z) :
          type \in {"crypt", "linear"}, o \in {0, 8, 12, 16, 22}, n \in {0, 4}, digests \in {<<>>, OneDigest}, m \in 3..5, z \in 0..16}
  \cup {Md(OneSegment, <<Keyslot(0, 8, 2)>>, <<Digest(k, s)>>, <<[key |-> t, whole |-> w, keyslots |-> l]>>, 4, 12) :
          k, l \in SUBSET (0..1), s \in SUBSET (0..1), t \in {-1, 0}, w \in BOOLEAN}

=============================================================================
