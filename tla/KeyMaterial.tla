----------------------------- MODULE KeyMaterial -----------------------------
(***************************************************************************)
(* What a key is made of before it opens a device: key files               *)
(* (crypt_keyfile_device_read in lib/utils.c), loop-AES key files          *)
(* (lib/loopaes/loopaes.c) and the anti-forensic splitter of a keyslot     *)
(* area (lib/luks1/af.c).                                                  *)
(*                                                                         *)
(* A file is a sequence of bytes, "n" for a newline and "0" for NUL, with  *)
(* the positions whose read fails.  kind is "regular", "redirected"        *)
(* (standard input that can be seeked), "pipe", "terminal" or "missing".   *)
(***************************************************************************)
EXTENDS Integers, Sequences

CONSTANTS
  KeyfileMax,      \* DEFAULT_KEYFILE_SIZE_MAXKB in bytes
  FirstBuffer,     \* the buffer of a read without limit
  BufferStep,      \* and what it grows by
  ManyKeys         \* the keys of a multi-key loop-AES file (64 in the code)

ASSUME KeyMaterialAssumption ==
  /\ KeyfileMax \in Nat /\ FirstBuffer \in Nat \ {0} /\ BufferStep \in Nat \ {0}
  /\ ManyKeys \in Nat \ {0, 1}

\* read_buffer: n bytes at position pos, or what there is, or an error.
ReadBuffer(f, pos, n) ==
  LET end == IF pos + n < Len(f.data) THEN pos + n ELSE Len(f.data)
  IN  IF f.bad \cap (pos + 1)..end # {} THEN -1
      ELSE IF end < pos THEN 0 ELSE end - pos

\* keyfile_seek: what cannot be seeked is read and dropped.
keyfile_seek(f, offset) ==
  f.kind = "pipe" => offset <= Len(f.data) /\ f.bad \cap 1..offset = {}

\* The buffer a key is first read to.
BufferSize(f, offset, key_size, unlimited) ==
  LET rest == Len(f.data) - offset
      default == IF unlimited THEN FirstBuffer ELSE key_size
  IN  IF f.kind # "regular" THEN default
      ELSE IF rest >= key_size THEN key_size ELSE IF rest > 0 THEN rest ELSE default

\* Mutation: a read fills the buffer, however much of it belongs to the key.
CharToReadBuffer(eol, key_size, buflen, i) == IF eol THEN 1 ELSE buflen - i

\* One byte at a time when a newline ends the key.
char_to_read(eol, key_size, buflen, i) ==
  IF eol THEN 1 ELSE IF key_size < buflen THEN key_size - i ELSE buflen - i

\* The loop of crypt_keyfile_device_read: the length of the key, whether a newline
\* ended it, and where the file stands.
ReadLoop(f, offset, eol, key_size, first) ==
  LET Loop[i \in Nat, buflen \in Nat] ==
        LET b == IF i = buflen THEN buflen + BufferStep ELSE buflen
            got == ReadBuffer(f, offset + i, char_to_read(eol, key_size, b, i))
            Stop(r, newline) == [r |-> r, i |-> i, newline |-> newline, pos |-> offset + i + IF newline THEN 1 ELSE 0]
        IN  IF i >= key_size THEN Stop(0, FALSE)
            ELSE IF got < 0 THEN Stop(-1, FALSE)
            ELSE IF got = 0 THEN Stop(0, FALSE)
            ELSE IF eol /\ f.data[offset + i + 1] = "n" THEN Stop(0, TRUE)
            ELSE Loop[i + got, b]
  IN  Loop[0, first]

crypt_keyfile_device_read(f, offset, size, eol) ==
  LET unlimited == size = 0
      key_size == IF unlimited THEN KeyfileMax + 1 ELSE size
      l == ReadLoop(f, offset, eol, key_size, BufferSize(f, offset, key_size, unlimited))
  IN  IF \/ f.kind \in {"missing", "terminal"}
         \/ f.kind = "regular" /\ offset > Len(f.data)
         \/ offset > 0 /\ ~keyfile_seek(f, offset)
         \/ l.r < 0
         \/ l.i = 0 /\ f.kind # "regular" /\ ~l.newline
         \/ unlimited /\ l.i = key_size
         \/ ~unlimited /\ l.i # key_size
      THEN [r |-> -1, key |-> <<>>, pos |-> 0]
      ELSE [r |-> 0, key |-> SubSeq(f.data, offset + 1, offset + l.i), pos |-> l.pos]

-----------------------------------------------------------------------------
get_hash(key_size) ==
  CASE key_size = 16 -> "sha256" [] key_size = 24 -> "sha384" [] key_size = 32 -> "sha512" [] OTHER -> "none"

get_tweak(count) == CASE count = ManyKeys -> "55" [] count = ManyKeys + 1 -> "F4" [] OTHER -> "00"

\* hash_keys: the volume key is the hash of each key with its first byte tweaked.
hash_keys(keys, hash, key_size) ==
  LET name == IF hash = "none" THEN get_hash(key_size) ELSE hash
  IN  IF key_size = 0 \/ name = "none" THEN [r |-> -1, vk |-> <<>>]
      ELSE [r |-> 0, vk |-> [i \in DOMAIN keys |-> <<get_tweak(Len(keys)), name, keys[i]>>]]

\* Mutation: the end of the buffer ends a key too.
TerminatedAnyway(buffer, offset) == TRUE

\* A key ends with a NUL, which newlines were turned into.
Terminated(buffer, offset) == offset < Len(buffer)

\* The scan for keys: a key is taken up to the next terminator, terminators behind
\* it are skipped, and the scan ends with the buffer or with the last key there
\* is room for.
KeyScan(buffer) ==
  LET NoEnd(o) == o < Len(buffer) /\ buffer[o + 1] \notin {"n", "0"}
      EndOf[o \in Nat] == IF NoEnd(o) THEN EndOf[o + 1] ELSE o
      NextOf[o \in Nat] == IF o < Len(buffer) /\ ~NoEnd(o) THEN NextOf[o + 1] ELSE o
      Scan[o \in Nat, keys \in Seq(Seq({"a", "b"}))] ==
        IF o >= Len(buffer) \/ Len(keys) = ManyKeys + 1 THEN [r |-> 0, keys |-> keys, offset |-> o]
        ELSE IF ~Terminated(buffer, EndOf[o]) THEN [r |-> -1, keys |-> keys, offset |-> o]
        ELSE Scan[NextOf[EndOf[o]], Append(keys, SubSeq(buffer, o + 1, EndOf[o]))]
  IN  Scan[0, <<>>]

LOOPAES_parse_keyfile(buffer, gpg, hash, key_size) ==
  LET s == KeyScan(buffer)
  IN  IF \/ buffer = <<>> \/ gpg
         \/ s.r < 0 \/ s.offset # Len(buffer)
         \/ \E i \in DOMAIN s.keys : Len(s.keys[i]) = 0 \/ Len(s.keys[i]) # Len(s.keys[1])
         \/ Len(s.keys) \notin {1, ManyKeys, ManyKeys + 1}
      THEN [r |-> -1, vk |-> <<>>]
      ELSE hash_keys(s.keys, hash, key_size)

-----------------------------------------------------------------------------
\* The splitter works on stripes of bytes, a byte being 0 or 1 here.
XORblock(a, b) == [j \in DOMAIN a |-> (a[j] + b[j]) % 2]

\* External: a digest of an index and some bytes.  Any function will do that has no
\* collisions between blocks of one length, cut to that length or not.
crypt_hash(iv, src, digest_size) ==
  LET Sum[j \in 0..digest_size] == IF j = 0 THEN iv ELSE Sum[j - 1] + 1 + IF j > Len(src) THEN 0 ELSE src[j]
  IN  [j \in 1..digest_size |-> Sum[j] % 2]

\* hash_buf: as much of the digest as there was to hash.
hash_buf(src, iv, digest_size) == SubSeq(crypt_hash(iv, src, digest_size), 1, Len(src))

\* Mutation: every block is the first.
FirstPart(src, i, digest_size) == SubSeq(src, 1, IF digest_size < Len(src) THEN digest_size ELSE Len(src))

\* The block with index i, or the padding, the shorter rest of the stripe.
DigestPart(src, i, digest_size) ==
  SubSeq(src, digest_size * i + 1, IF i < Len(src) \div digest_size THEN digest_size * (i + 1) ELSE Len(src))

\* diffuse: each block of the size of a digest is hashed with its index, and so is
\* the padding.
diffuse(src, digest_size) ==
  [j \in DOMAIN src |->
     LET i == (j - 1) \div digest_size
     IN  hash_buf(DigestPart(src, i, digest_size), i, digest_size)[j - digest_size * i]]

\* What the buffer block, which starts with zeroes, holds after the given stripes.
Diffused(stripes, blocksize, digest_size) ==
  LET B[i \in 0..Len(stripes)] ==
        IF i = 0 THEN [j \in 1..blocksize |-> 0] ELSE diffuse(XORblock(stripes[i], B[i - 1]), digest_size)
  IN  B[Len(stripes)]

\* A hash that is not known has no digest size; a single stripe does without.
HashFails(stripes, digest_size) == stripes # <<>> /\ digest_size = 0

\* AF_split: all stripes but the last are random, unless there is no randomness
\* for stripe number fails.
AF_split(key, random, fails, digest_size) ==
  IF fails \in DOMAIN random \/ HashFails(random, digest_size) THEN [r |-> -1, stripes |-> <<>>]
  ELSE [r |-> 0, stripes |-> Append(random, XORblock(key, Diffused(random, Len(key), digest_size)))]

\* Mutation: the first stripe is left out.
MergedFromSecond(stripes) == SubSeq(stripes, 2, Len(stripes) - 1)

\* The stripes that go through the hash, all but the last.
Merged(stripes) == SubSeq(stripes, 1, Len(stripes) - 1)

AF_merge(stripes, digest_size) ==
  LET last == stripes[Len(stripes)]
  IN  IF HashFails(Merged(stripes), digest_size) THEN [r |-> -1, key |-> <<>>]
      ELSE [r |-> 0, key |-> XORblock(last, Diffused(Merged(stripes), Len(last), digest_size))]
=============================================================================
