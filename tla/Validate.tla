------------------------------ MODULE Validate -------------------------------
(***************************************************************************)
(* The validation of LUKS2 metadata before it is used or written: the six  *)
(* section checks of LUKS2_hdr_validate (lib/luks2/luks2_json_metadata.c). *)
(* Module LUKS2Keyslots has the checks of the JSON size and of the keyslot *)
(* types.                                                                  *)
(*                                                                         *)
(* A section is a sequence of its members in the order of the JSON text.   *)
(* The field whole says that a member has all mandatory fields, each of    *)
(* its JSON type (json_contains), and that its numbers are decimal         *)
(* (numbered, json_str_to_uint64), a segment size not "0".  Numbers are    *)
(* unsigned and wrap.                                                      *)
(***************************************************************************)
EXTENDS Integers, Sequences, FiniteSets

CONSTANTS
  UintBits,        \* the width of an offset (64 in the code)
  MetadataSizes,   \* the sizes a header copy may have
  MaxKeyslotsSize  \* LUKS2_MAX_KEYSLOTS_SIZE

ASSUME ValidateAssumption ==
  UintBits \in Nat /\ MetadataSizes \subseteq 1..2^UintBits /\ MaxKeyslotsSize \in 0..2^UintBits

SectorLen == 2                       \* 512 bytes
PageLen   == 4                       \* 4096 bytes
UintMax   == 2^UintBits - 1
Uint(n)   == n % 2^UintBits
Dynamic   == 0                       \* the size of a segment that takes the rest of the device

Members(s) == {s[i] : i \in DOMAIN s}
Keys(s)    == {m.key : m \in Members(s)}
Numbered(s) == \A m \in Members(s) : m.key >= 0      \* numbered: -1 is any other name

validate_keyslots_array(h, keyslots) == keyslots \subseteq Keys(h.keyslots)
validate_segments_array(h, segments) == segments \subseteq Keys(h.segments)

LUKS2_token_validate(h, t) == t.whole /\ validate_keyslots_array(h, t.keyslots)

hdr_validate_tokens(h) ==
  Numbered(h.tokens) /\ \A t \in Members(h.tokens) : LUKS2_token_validate(h, t)

hdr_validate_digests(h) ==
  /\ Numbered(h.digests)
  /\ \A d \in Members(h.digests) :
       d.whole /\ validate_keyslots_array(h, d.keyslots) /\ validate_segments_array(h, d.segments)

LUKS2_keyslot_validate(k) == k.whole

hdr_validate_keyslots(h) ==
  Numbered(h.keyslots) /\ \A k \in Members(h.keyslots) : LUKS2_keyslot_validate(k)

segment_has_digest(h, key) == \E d \in Members(h.digests) : key \in d.segments

hdr_validate_crypt_segment(h, g) ==
  /\ g.sector > 0 /\ g.sector % SectorLen = 0
  /\ g.size % g.sector = 0
  /\ segment_has_digest(h, g.key)

validate_segment_intervals(ix) ==
  \A i \in DOMAIN ix :
    /\ ix[i].length = UintMax => i = Len(ix)
    /\ \A j \in DOMAIN ix \ {i} :
         ~(ix[i].offset >= ix[j].offset /\ (ix[j].length = UintMax \/ ix[i].offset < Uint(ix[j].offset + ix[j].length)))

\* The backup segments among the first n members.
Backups(s, n) == {i \in 1..n : s[i].backup}
FirstBackup(s, n) == CHOOSE k \in {s[i].key : i \in Backups(s, n)} : \A i \in Backups(s, n) : k <= s[i].key

\* The regular segments come first; a segment is compared with the backup segments
\* the loop has met so far.
BackupsBehind(s) ==
  \A i \in DOMAIN s : ~s[i].backup /\ Backups(s, i) # {} => s[i].key < FirstBackup(s, i)

RegularCount(s) == IF Backups(s, Len(s)) = {} THEN Len(s) ELSE FirstBackup(s, Len(s))

SegmentAt(s, key) == CHOOSE g \in Members(s) : g.key = key

hdr_validate_segments(h) ==
  LET s == h.segments
      n == RegularCount(s)
  IN  /\ Len(s) > 0
      /\ Numbered(s)
      /\ \A g \in Members(s) :
           /\ g.whole /\ g.offset % SectorLen = 0 /\ g.size % SectorLen = 0
           /\ g.type = "crypt" => hdr_validate_crypt_segment(h, g)
      /\ BackupsBehind(s)
      /\ n \in 1..Len(s) /\ (Backups(s, Len(s)) # {} => n < Len(s))
      /\ 0..(n - 1) \subseteq Keys(s)
      /\ validate_segment_intervals(
           [i \in 1..n |-> LET g == SegmentAt(s, i - 1)
                           IN  [offset |-> g.offset, length |-> IF g.size = Dynamic THEN UintMax ELSE g.size]])
      /\ n..(Len(s) - 1) \subseteq Keys(s)

\* json_segments_get_minimal_offset: 0 when a segment starts the device.
MinimalOffset(s) ==
  LET offsets == {UintMax} \cup {g.offset : g \in {m \in Members(s) : ~m.backup}}
  IN  CHOOSE o \in offsets : \A p \in offsets : o <= p

\* Mutation: the keyslots area is compared with one copy of the header.
ConfigOneCopy(h) ==
  LET offset == MinimalOffset(h.segments)
  IN  /\ h.config.whole
      /\ h.config.metadata_size \in MetadataSizes
      /\ h.config.keyslots_size % PageLen = 0 /\ h.config.keyslots_size <= MaxKeyslotsSize
      /\ offset # 0 => offset >= h.config.keyslots_size /\ offset - h.config.keyslots_size >= h.config.metadata_size

hdr_validate_config(h) ==
  LET offset == MinimalOffset(h.segments)
  IN  /\ h.config.whole
      /\ h.config.metadata_size \in MetadataSizes
      /\ h.config.keyslots_size % PageLen = 0 /\ h.config.keyslots_size <= MaxKeyslotsSize
      /\ offset # 0 => offset >= h.config.keyslots_size /\ offset - h.config.keyslots_size >= 2 * h.config.metadata_size

LUKS2_hdr_and_areas_size(h) == 2 * h.config.metadata_size + h.config.keyslots_size

validate_intervals(ix, metadata_size, keyslots_area_end) ==
  \A a \in ix :
    /\ a.offset >= 2 * metadata_size
    /\ a.length > 0
    /\ Uint(a.offset + a.length) <= keyslots_area_end
    /\ \A b \in ix \ {a} : ~(a.offset >= b.offset /\ a.offset < Uint(b.offset + b.length))

hdr_validate_areas(h) ==
  /\ \A k \in Members(h.keyslots) : k.area
  /\ validate_intervals({[key |-> k.key, offset |-> k.offset, length |-> k.length] : k \in Members(h.keyslots)},
                        h.config.metadata_size, LUKS2_hdr_and_areas_size(h))

LUKS2_hdr_validate(h) ==
  /\ hdr_validate_tokens(h)
  /\ hdr_validate_digests(h)
  /\ hdr_validate_segments(h)
  /\ hdr_validate_keyslots(h)
  /\ hdr_validate_config(h)
  /\ hdr_validate_areas(h)
=============================================================================
