------------------------------ MODULE DmTables -------------------------------
(***************************************************************************)
(* Device-mapper tables of crypt, verity and integrity targets, written by *)
(* get_dm_*_params and read back by _dm_target_query_* in                  *)
(* lib/libdevmapper.c.  Refresh, resize, suspend and close all start from  *)
(* what is read back from the kernel.                                      *)
(*                                                                         *)
(* A table line is a sequence of words.  An optional argument is the word  *)
(* <<name>>, or <<name, value>> where the text has name:value in one word. *)
(* Numbers, names and keys are values that the text can tell apart.  An    *)
(* integrity table is put together in buffers of fixed size, so that the   *)
(* lengths of its words are in the model.                                  *)
(***************************************************************************)
EXTENDS Integers, Sequences, FiniteSets

CONSTANT UnsignedBits      \* the width of an unsigned int
ASSUME DmTablesConstants == UnsignedBits \in Nat

None == "none"

\* What a query returns: the target, or nothing when the table is refused.
Failed == <<>>

CryptFlags == <<"allow_discards", "same_cpu_crypt", "submit_from_crypt_cpus",
                "no_read_workqueue", "no_write_workqueue", "iv_large_sectors">>
VerityFlags == <<"ignore_corruption", "restart_on_corruption", "panic_on_corruption",
                 "ignore_zero_blocks", "check_at_most_once">>

SectorSize == 512

\* The words of a table line for an optional part.
Opt(present, words) == IF present THEN words ELSE <<>>

\* The words of the flags that are set, in the order of names.
FlagWords(names, flags) ==
  LET W[i \in 0..Len(names)] == IF i = 0 THEN <<>> ELSE W[i - 1] \o Opt(names[i] \in flags, <<<<names[i]>>>>)
  IN  W[Len(names)]

SetOf(seq) == {seq[i] : i \in DOMAIN seq}

-----------------------------------------------------------------------------
(* Cipher specifications: [cipher, mode, iv], and how the kernel gets them.  *)

\* cipher_c2dm.  The integrity "none" of the source, which asks for a crypto API
\* name without authentication, is "none:" here; None is no integrity at all.
cipher_c2dm(c, integrity, tag) ==
  [wrap |-> CASE integrity = None -> "legacy"
              [] integrity = "none:" -> "capi"
              [] integrity = "aead" /\ c.mode = "ccm" -> "rfc4309"
              [] integrity = "aead" /\ c.mode # "ccm" -> "capi"
              [] integrity = "poly1305" -> "rfc7539"
              [] OTHER -> "authenc",
   auth |-> IF integrity \in {None, "none:", "aead"} THEN None ELSE integrity,
   spec |-> c,
   opts |-> Opt(integrity # None, <<<<"integrity", tag, IF integrity = "none:" THEN "none:" ELSE "aead">>>>)]

\* cipher_dm2c: the name of the algorithm tells which integrity was asked for.
\* Without a wrapper it is what the integrity argument of the table says.
cipher_dm2c(d, rintegrity) ==
  [cipher    |-> d.spec,
   integrity |-> CASE d.wrap = "legacy" -> None
                   [] d.wrap = "rfc4309" -> "aead"
                   [] d.wrap \in {"rfc7539", "authenc"} -> d.auth
                   [] d.wrap = "capi" -> rintegrity]

\* Mutation: the sector size is written and not counted.
CryptOptionsNoSector(t) == Cardinality(t.flags) + (IF t.integrity # None THEN 1 ELSE 0)

\* num_options: the number the table states, counted apart from the arguments.
CryptOptions(t) ==
  Cardinality(t.flags) + (IF t.integrity # None THEN 1 ELSE 0) + (IF t.sector_size # SectorSize THEN 1 ELSE 0)

\* get_dm_crypt_params: the key of a null cipher is "-", a key in the keyring is
\* given by its size and description.
get_dm_crypt_params(t) ==
  LET dm == cipher_c2dm(t.cipher, t.integrity, t.tag)
      key == IF t.cipher.cipher = "null" THEN [form |-> "dash", size |-> 0, key |-> None]
             ELSE IF t.keyring THEN [form |-> "keyring", size |-> t.key.size, key |-> t.key.description]
             ELSE [form |-> "hex", size |-> t.key.size, key |-> t.key.key]
  IN  [head |-> <<[dm EXCEPT !.opts = <<>>], key, t.iv_offset, t.device, t.offset>>,
       tail |-> IF CryptOptions(t) = 0 THEN <<>>
                ELSE <<CryptOptions(t)>> \o FlagWords(CryptFlags, t.flags)
                     \o Opt(t.sector_size # SectorSize, <<<<"sector_size", t.sector_size>>>>) \o dm.opts]

\* _dm_target_query_crypt: exactly the stated number of arguments, all known.
_dm_target_query_crypt(p) ==
  LET args == IF p.tail = <<>> THEN <<>> ELSE SubSeq(p.tail, 2, Len(p.tail))
      known == SetOf(CryptFlags) \cup {"integrity", "sector_size"}
      Arg(name) == {i \in DOMAIN args : args[i][1] = name}
      integrity == IF Arg("integrity") = {} THEN <<"", 0, None>> ELSE args[CHOOSE i \in Arg("integrity") : TRUE]
      back == cipher_dm2c(p.head[1], integrity[3])
  IN  IF \/ p.tail # <<>> /\ (p.tail[1] # Len(args) \/ args = <<>>)
         \/ \E i \in DOMAIN args : args[i][1] \notin known
      THEN Failed
      ELSE <<[cipher |-> back.cipher, integrity |-> back.integrity, tag |-> integrity[2],
            keyring |-> p.head[2].form = "keyring",
            key |-> [size |-> p.head[2].size,
                     description |-> IF p.head[2].form = "keyring" THEN p.head[2].key ELSE None,
                     key |-> IF p.head[2].form = "hex" THEN p.head[2].key ELSE None],
            iv_offset |-> p.head[3], device |-> p.head[4], offset |-> p.head[5],
            sector_size |-> IF Arg("sector_size") = {} THEN SectorSize ELSE args[CHOOSE i \in Arg("sector_size") : TRUE][2],
            flags |-> {f \in SetOf(CryptFlags) : Arg(f) # {}}]>>

-----------------------------------------------------------------------------
\* No parity device.
NoFec == [device |-> None, start |-> 0, blocks |-> 0, roots |-> 0]

\* Restart gives way to panic, and ignoring corruption to either.
CompatibleFlags(flags) ==
  LET f == IF {"restart_on_corruption", "panic_on_corruption"} \subseteq flags
           THEN flags \ {"restart_on_corruption"} ELSE flags
  IN  IF f \cap {"restart_on_corruption", "panic_on_corruption"} # {} THEN f \ {"ignore_corruption"} ELSE f

\* get_dm_verity_params: every value behind a name counts as an argument.
get_dm_verity_params(t) ==
  LET flags == CompatibleFlags(t.flags)
      num == Cardinality(flags) + (IF t.fec.device # None THEN 8 ELSE 0) + (IF t.sig # None THEN 2 ELSE 0)
  IN  [head |-> <<t.hash_type, t.device, t.hash_device, t.data_block_size, t.hash_block_size, t.data_size,
                  t.hash_offset, t.hash_name, t.root_hash, IF t.salt = None THEN "-" ELSE t.salt>>,
       tail |-> Opt(num > 0, <<num>>) \o FlagWords(VerityFlags, flags)
                \o Opt(t.fec.device # None, <<<<"use_fec_from_device">>, t.fec.device, <<"fec_start">>, t.fec.start,
                                       <<"fec_blocks">>, t.fec.blocks, <<"fec_roots">>, t.fec.roots>>)
                \o Opt(t.sig # None, <<<<"root_hash_sig_key_desc">>, t.sig>>)]

\* The arguments that are followed by a value; each value moves the counter too.
Valued(word) == word[1] \in {"use_fec_from_device", "fec_start", "fec_blocks", "fec_roots", "root_hash_sig_key_desc"}

\* _dm_target_query_verity: S[k].i counts what is read against the stated number,
\* S[k].at is the next word.
_dm_target_query_verity(p) ==
  LET n == IF p.tail = <<>> THEN 0 ELSE p.tail[1]
      empty == [i |-> 0, at |-> 2, flags |-> {}, values |-> {}, ok |-> TRUE]
      S[k \in 0..n] ==
        IF k = 0 THEN empty
        ELSE LET s == S[k - 1] IN
          IF ~s.ok \/ s.i >= n THEN s
          ELSE IF s.at > Len(p.tail) THEN [s EXCEPT !.ok = FALSE]
          ELSE LET word == p.tail[s.at] IN
            IF Valued(word)
            THEN [s EXCEPT !.i = @ + 2, !.at = @ + 2, !.values = @ \cup {<<word[1], p.tail[s.at + 1]>>}]
            ELSE IF word[1] \in SetOf(VerityFlags)
            THEN [s EXCEPT !.i = @ + 1, !.at = @ + 1, !.flags = @ \cup {word[1]}]
            ELSE [s EXCEPT !.ok = FALSE]
      end == S[n]
      Value(name) == (CHOOSE v \in end.values : v[1] = name)[2]
      Has(name) == \E v \in end.values : v[1] = name
  IN  IF ~end.ok \/ (p.tail # <<>> /\ end.at <= Len(p.tail)) THEN Failed
      ELSE <<[hash_type |-> p.head[1], device |-> p.head[2], hash_device |-> p.head[3], data_block_size |-> p.head[4],
            hash_block_size |-> p.head[5], data_size |-> p.head[6], hash_offset |-> p.head[7], hash_name |-> p.head[8],
            root_hash |-> p.head[9], salt |-> IF p.head[10] = "-" THEN None ELSE p.head[10], flags |-> end.flags,
            fec |-> IF Has("use_fec_from_device")
                    THEN [device |-> Value("use_fec_from_device"), start |-> Value("fec_start"),
                          blocks |-> Value("fec_blocks"), roots |-> Value("fec_roots")] ELSE NoFec,
            sig |-> IF Has("root_hash_sig_key_desc") THEN Value("root_hash_sig_key_desc") ELSE None]>>

-----------------------------------------------------------------------------
\* The fields of an integrity target.  The value of a field is <<>> when it is 0
\* or a null pointer, else <<number>>, <<device>>, or <<algorithm, bytes of its key>>
\* with 0 for no key.
Numbers == {"journal_size", "watermark", "commit_time", "interleave", "sector_size", "buffer"}
Algs == {"integrity", "journal_integrity", "journal_crypt"}
Fields == Numbers \cup Algs \cup {"meta_device"}

\* Their names in the table, in its order; the bitmap mode renames two.
IntegrityNames(bitmap) ==
  << <<"journal_size", "journal_sectors">>,
     <<"watermark", IF bitmap THEN "sectors_per_bit" ELSE "journal_watermark">>,
     <<"commit_time", IF bitmap THEN "bitmap_flush_interval" ELSE "commit_time">>,
     <<"interleave", "interleave_sectors">>, <<"sector_size", "block_size">>, <<"buffer", "buffer_sectors">>,
     <<"integrity", "internal_hash">>, <<"journal_integrity", "journal_mac">>, <<"journal_crypt", "journal_crypt">>,
     <<"meta_device", "meta_device">> >>

IntegrityFlags == <<"fix_padding", "fix_hmac", "legacy_recalculate", "recalculate", "reset_recalculate", "allow_discards">>

\* The mode character of the table.
Mode(flags) ==
  IF "no_journal_bitmap" \in flags THEN "B" ELSE IF "recovery" \in flags THEN "R"
  ELSE IF "no_journal" \in flags THEN "D" ELSE "J"

\* The flags a mode character is read as.
ModeFlags(mode) ==
  CASE mode = "D" -> {"no_journal"} [] mode = "R" -> {"recovery"}
    [] mode = "B" -> {"no_journal", "no_journal_bitmap"} [] mode = "J" -> {}

SetLeast(S) == CHOOSE x \in S : \A y \in S : x <= y
KeyBytes(t, f) == IF t.values[f] = <<>> THEN 0 ELSE t.values[f][2]
NameChars(t, f) == IF t.values[f] = <<>> THEN 0 ELSE Len(t.values[f][1])
Digits(n) == CHOOSE d \in 1..9 : n < 10^d /\ (d = 1 \/ 10^(d - 1) <= n)

\* The size of the buffer: names and keys, and 128 bytes for all the rest.
ParamsSize(t) ==
  Len(t.device) + NameChars(t, "meta_device")
    + NameChars(t, "integrity") + NameChars(t, "journal_integrity") + NameChars(t, "journal_crypt")
    + 2 * (KeyBytes(t, "integrity") + KeyBytes(t, "journal_integrity") + KeyBytes(t, "journal_crypt")) + 128

\* The word of a field: a journal is written in sectors.  chars is the length of
\* its text, with name, colon and the space behind it.
FieldWord(f, name, v) ==
  LET written == IF f = "journal_size" THEN <<(v[1] \div SectorSize) % 2^UnsignedBits>> ELSE v
      text == CASE f \in Numbers -> Digits(written[1])
                [] f \in Algs -> Len(v[1]) + IF v[2] = 0 THEN 0 ELSE 1 + 2 * v[2]
                [] OTHER -> Len(v[1])
  IN  <<name, written, Len(name) + text + 2>>

\* get_dm_integrity_params: nothing when the text does not fit the buffer; cut
\* when an option did not fit the 256 bytes it is put together in, or all of them
\* their 512.
get_dm_integrity_params(t) ==
  LET names == IntegrityNames("no_journal_bitmap" \in t.flags)
      Field(i) == Opt(t.values[names[i][1]] # <<>>, <<FieldWord(names[i][1], names[i][2], t.values[names[i][1]])>>)
      W[i \in 0..(Len(names) - 1)] == IF i = 0 THEN <<>> ELSE W[i - 1] \o Field(i)
      flags == FlagWords(IntegrityFlags, t.flags)
      opts == W[Len(names) - 1] \o [k \in DOMAIN flags |-> <<flags[k][1], <<>>, Len(flags[k][1]) + 1>>] \o Field(Len(names))
      Chars[i \in 0..Len(opts)] == IF i = 0 THEN 0 ELSE Chars[i - 1] + SetLeast({opts[i][3], 255})
      num == Cardinality({f \in Fields : t.values[f] # <<>>}) + Cardinality(t.flags \cap SetOf(IntegrityFlags))
      cut == (\E i \in DOMAIN opts : opts[i][3] > 255) \/ Chars[Len(opts)] > 511
      text == Len(t.device) + Digits(t.offset) + Digits(t.tag) + 1 + Digits(num) + 5 + SetLeast({Chars[Len(opts)], 511})
  IN  IF text >= ParamsSize(t) THEN Failed
      ELSE <<[head |-> <<t.device, t.offset, t.tag, Mode(t.flags)>>, tail |-> <<num>> \o opts, cut |-> cut]>>

\* The field each name is read into.
FieldNames == UNION {{IntegrityNames(b)[i] : i \in DOMAIN IntegrityNames(b)} : b \in BOOLEAN}

\* Mutation: the journal is taken for bytes.
JournalBytes(val) == val

\* The size of a journal, which is calculated in the width of an unsigned int.
JournalSize(val) == (val * SectorSize) % 2^UnsignedBits

\* What a field is read as: the keys of the journal are not read.
ReadField(f, value) ==
  CASE f = "journal_size" -> IF JournalSize(value[1]) = 0 THEN <<>> ELSE <<JournalSize(value[1])>>
    [] f \in {"journal_integrity", "journal_crypt"} -> <<value[1], 0>>
    [] OTHER -> value

\* _dm_target_query_integrity.
_dm_target_query_integrity(p) ==
  LET args == SubSeq(p.tail, 2, Len(p.tail))
      Default(field) == IF field = "sector_size" THEN <<SectorSize>> ELSE <<>>
      Arg(field) == {i \in DOMAIN args : <<field, args[i][1]>> \in FieldNames}
      known == {n[2] : n \in FieldNames} \cup SetOf(IntegrityFlags)
  IN  IF p.tail[1] # Len(args) \/ \E i \in DOMAIN args : args[i][1] \notin known THEN Failed
      ELSE <<[device |-> p.head[1], offset |-> p.head[2], tag |-> p.head[3],
            flags |-> ModeFlags(p.head[4]) \cup {f \in SetOf(IntegrityFlags) : \E i \in DOMAIN args : args[i][1] = f},
            values |-> [f \in Fields |->
                          IF Arg(f) = {} THEN Default(f) ELSE ReadField(f, args[CHOOSE i \in Arg(f) : TRUE][2])]]>>
=============================================================================
