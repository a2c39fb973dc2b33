------------------------------- MODULE Verity --------------------------------
(***************************************************************************)
(* The hash tree and the error correction of dm-verity as veritysetup      *)
(* creates and verifies them (lib/verity/verity_hash.c, verity_fec.c).     *)
(*                                                                         *)
(* A hash is a term of what was hashed, so that two hashes are equal only  *)
(* if their inputs are.  A hash block is a record of its digests, the      *)
(* padding behind each digest and the spare area at its end.               *)
(***************************************************************************)
EXTENDS Integers, Sequences, FiniteSets

NoDigest == <<>>       \* the zeroes of a digest that is not there

\* verify_hash_block.  Version 0 appends the salt, version 1 prepends it.
verify_hash_block(version, salt, block) ==
  IF version = 0 THEN <<block, salt>> ELSE <<salt, block>>

\* The number of blocks of level i (0 is the lowest) over n data blocks, with
\* 2^bits digests in a block.
LevelSize(bits, n, i) == (n + 2^((i + 1) * bits) - 1) \div 2^((i + 1) * bits)

\* The levels of the tree: none for a single data block.
Levels(bits, n) ==
  CHOOSE l \in 0..n : (n - 1) \div 2^(l * bits) = 0 /\ \A k \in 0..(l - 1) : (n - 1) \div 2^(k * bits) # 0

\* hash_levels: the highest level comes first in the hash area.
LevelBlock(bits, n, position, i) ==
  LET P[k \in 0..Levels(bits, n)] ==       \* the position after the k highest levels
        IF k = 0 THEN position ELSE P[k - 1] + LevelSize(bits, n, Levels(bits, n) - k)
  IN  P[Levels(bits, n) - 1 - i]

\* The area the tree takes: hash_position when hash_levels returns.
AreaEnd(bits, n, position) ==
  IF Levels(bits, n) = 0 THEN position ELSE LevelBlock(bits, n, position, 0) + LevelSize(bits, n, 0)

\* What create_or_verify writes to a hash block: the digests of up to 2^bits
\* blocks, and zeroes.
HashBlock(version, salt, bits, blocks) ==
  [digests |-> [k \in 1..2^bits |-> IF k <= Len(blocks) THEN verify_hash_block(version, salt, blocks[k]) ELSE NoDigest],
   pad     |-> [k \in 1..2^bits |-> 0],
   spare   |-> 0]

\* The blocks that block b (from 0) of a level holds the digests of.
Group(blocks, bits, b) ==
  SubSeq(blocks, b * 2^bits + 1, IF (b + 1) * 2^bits < Len(blocks) THEN (b + 1) * 2^bits ELSE Len(blocks))

\* create_or_verify with verify = 0: one level written to the hash device.
CreateLevel(v, device, blocks, start) ==
  [p \in DOMAIN device |->
     IF p >= start /\ p < start + ((Len(blocks) + 2^v.bits - 1) \div 2^v.bits)
     THEN HashBlock(v.version, v.salt, v.bits, Group(blocks, v.bits, p - start))
     ELSE device[p]]

\* Mutation: only the first digest of a block is compared.
FirstDigestMatches(version, have, want) ==
  have.digests[1] = want.digests[1] /\ have.pad = want.pad /\ have.spare = want.spare

\* create_or_verify with verify = 1: digests, padding and spare areas.  Version 0
\* has no padding between digests.
BlockMatches(version, have, want) ==
  /\ have.digests = want.digests
  /\ version = 1 => have.pad = want.pad
  /\ have.spare = want.spare

VerifyLevel(v, device, blocks, start) ==
  \A p \in DOMAIN device :
    (p >= start /\ p < start + ((Len(blocks) + 2^v.bits - 1) \div 2^v.bits))
      => BlockMatches(v.version, device[p], HashBlock(v.version, v.salt, v.bits, Group(blocks, v.bits, p - start)))

\* The blocks a level is calculated from: the data, or the level below as it is
\* on the hash device.
Below(v, device, i) ==
  IF i = 0 THEN v.data
  ELSE [k \in 1..LevelSize(v.bits, Len(v.data), i - 1) |->
          device[LevelBlock(v.bits, Len(v.data), v.position, i - 1) + k - 1]]

\* The root hash: of the top block, or of the only data block.
RootOf(v, device) ==
  LET l == Levels(v.bits, Len(v.data))
  IN  verify_hash_block(v.version, v.salt,
        IF l = 0 THEN v.data[1] ELSE device[LevelBlock(v.bits, Len(v.data), v.position, l - 1)])

\* VERITY_create: the levels from the lowest to the highest, and the root hash.
VERITY_create(v, device) ==
  LET l == Levels(v.bits, Len(v.data))
      D[i \in 0..l] == IF i = 0 THEN device
                       ELSE CreateLevel(v, D[i - 1], Below(v, D[i - 1], i - 1),
                                        LevelBlock(v.bits, Len(v.data), v.position, i - 1))
  IN  [device |-> D[l], root |-> RootOf(v, D[l])]

\* VERITY_verify.
VERITY_verify(v, device, root) ==
  LET l == Levels(v.bits, Len(v.data))
  IN  IF ~ \A i \in 0..(l - 1) : VerifyLevel(v, device, Below(v, device, i), LevelBlock(v.bits, Len(v.data), v.position, i))
      THEN "EPERM"
      ELSE IF RootOf(v, device) # root THEN "EFAULT" ELSE "ok"

-----------------------------------------------------------------------------
FEC_div_round_up(x, y) == (x \div y) + (IF x % y > 0 THEN 1 ELSE 0)

\* Mutation: blocks of one code word lie next to each other.
InterleaveDense(ctx, offset) == (offset \div ctx.rsn) + (offset % ctx.rsn) * ctx.block_size

\* The physical offset of an offset of the Reed-Solomon code.
FEC_interleave(ctx, offset) == (offset \div ctx.rsn) + (offset % ctx.rsn) * ctx.rounds * ctx.block_size

\* FEC_process_inputs: size is the bytes of data, hash area and padding.
FecContext(rsn, block_size, size) ==
  [rsn |-> rsn, block_size |-> block_size, size |-> size,
   rounds |-> FEC_div_round_up(FEC_div_round_up(size, block_size), rsn)]

\* VERITY_FEC_blocks: data blocks, and the hash device from the hash area on, to
\* its end or to the parity area on the same device.
VERITY_FEC_blocks(data_size, meta_bytes, fec_area_offset, same, hash_offset_block, block_size) ==
  LET blocks == (IF same THEN fec_area_offset ELSE meta_bytes) \div block_size
  IN  (IF blocks = 0 THEN 0 ELSE blocks - hash_offset_block) + data_size

\* FEC_read_interleaved: the byte of the inputs that symbol i of the code word of
\* byte b in round n is read from; offsets behind the inputs are zeroes.
SymbolAt(ctx, n, b, i) ==
  LET offset == FEC_interleave(ctx, n * ctx.rsn * ctx.block_size + i)
  IN  IF offset >= ctx.size THEN {} ELSE {offset + b}

\* The code words, each a sequence of its symbols, in the order of the parity.
CodeWords(ctx) ==
  {[i \in 0..(ctx.rsn - 1) |-> SymbolAt(ctx, n, b, i)] : n \in 0..(ctx.rounds - 1), b \in 0..(ctx.block_size - 1)}

\* The device a byte of the inputs is read from, and its position there.
InputOf(inputs, offset) ==
  IF offset < inputs[1].count THEN <<1, inputs[1].start + offset>>
  ELSE <<2, inputs[2].start + offset - inputs[1].count>>

-----------------------------------------------------------------------------
(* Formatting: the areas of the devices and the superblock.  Lengths are in *)
(* units of 256 bytes, a digest has one; hash names are "sha256",           *)
(* "SHA256" (the same hash) and others.  fec is the device of the parity:   *)
(* "none", "data", "hash" or "own".                                         *)

SbSize == 2                                  \* struct verity_sb: a sector
Aligned(n) == n % SbSize = 0
BlockSizeOk(n) == n \in {2, 4, 8}            \* VERITY_BLOCK_SIZE_OK: a power of two, up to a maximum
Supported == {"sha256", "SHA256"}            \* crypt_hash_size
LowerCase(name) == IF name = "SHA256" THEN "sha256" ELSE name      \* _to_lower

\* get_bits_down of the digests of a hash block.
HashBits(hash_block) == CHOOSE b \in 0..hash_block : 2^b <= hash_block /\ 2^(b + 1) > hash_block

\* VERITY_hash_blocks; no data blocks at all is an error of hash_levels, and 0.
VERITY_hash_blocks(hash_block, data_size) ==
  IF data_size = 0 THEN 0 ELSE AreaEnd(HashBits(hash_block), data_size, 0)

\* Mutation: the tree starts with the superblock.
OffsetOfHeader(hdr) == hdr.hash_offset \div hdr.hash_block

\* The first hash block behind the superblock.
VERITY_hash_offset_block(hdr) ==
  (hdr.hash_offset + IF hdr.no_header THEN 0 ELSE SbSize + hdr.hash_block - 1) \div hdr.hash_block

VERITY_write_sb(hdr, uuid) ==
  [signature |-> "verity", version |-> 1, hash_type |-> hdr.hash_type, data_block |-> hdr.data_block,
   hash_block |-> hdr.hash_block, data_size |-> hdr.data_size, algorithm |-> LowerCase(hdr.hash_name), salt |-> hdr.salt, uuid |-> uuid]

VERITY_read_sb(sb, offset) ==
  IF /\ Aligned(offset)
     /\ sb.signature = "verity" /\ sb.version = 1 /\ sb.hash_type \in 0..1
     /\ BlockSizeOk(sb.data_block) /\ BlockSizeOk(sb.hash_block)
     /\ sb.algorithm \in Supported
  THEN [r |-> 0, hdr |-> [hash_type |-> sb.hash_type, data_block |-> sb.data_block, hash_block |-> sb.hash_block,
                          data_size |-> sb.data_size, hash_name |-> sb.algorithm, salt |-> sb.salt,
                          hash_offset |-> offset, no_header |-> FALSE]]
  ELSE [r |-> -1]

\* The number of data blocks, by default those of the data device.
DataSize(q) == IF q.data_size = 0 THEN q.device_size \div q.data_block ELSE q.data_size

\* _crypt_format_verity up to the creation of the tree: the areas are where they
\* should be.
AreasAccepted(q) ==
  /\ q.hash_type \in 0..1
  /\ BlockSizeOk(q.data_block) /\ BlockSizeOk(q.hash_block)
  /\ Aligned(q.hash_offset) /\ Aligned(q.fec_offset)
  /\ q.same => DataSize(q) * q.data_block <= q.hash_offset
  /\ q.hash_name \in Supported
  /\ q.fec = "hash" \/ (q.fec = "data" /\ q.same) =>
       q.hash_offset + VERITY_hash_blocks(q.hash_block, q.data_size) * q.hash_block <= q.fec_offset
  /\ q.fec = "data" \/ (q.fec = "hash" /\ q.same) => DataSize(q) * q.data_block <= q.fec_offset

\* _crypt_format_verity: then the tree is created, the parity, and the superblock
\* last.  Parity needs one block size.
_crypt_format_verity(q) ==
  IF AreasAccepted(q) /\ (q.fec # "none" => q.data_block = q.hash_block /\ DataSize(q) > 0)
  THEN LET hdr == [hash_type |-> q.hash_type, data_block |-> q.data_block, hash_block |-> q.hash_block,
                   data_size |-> DataSize(q), hash_name |-> q.hash_name, salt |-> q.salt,
                   hash_offset |-> q.hash_offset, no_header |-> q.no_header]
       IN  [r |-> 0, hdr |-> hdr, sb |-> IF q.no_header THEN [signature |-> "none"] ELSE VERITY_write_sb(hdr, "uuid")]
  ELSE [r |-> -1]

_crypt_load_verity(sb, offset, no_header) ==
  IF no_header THEN [r |-> -1] ELSE VERITY_read_sb(sb, offset)
=============================================================================
