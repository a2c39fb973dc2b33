-------------------------------- MODULE Bitlk --------------------------------
(***************************************************************************)
(* Opening a BitLocker volume (lib/bitlk/bitlk.c): reading the metadata,   *)
(* finding a key with what the user gives, and the device-mapper segments  *)
(* that put the moved file system header back and hide the metadata areas. *)
(*                                                                         *)
(* Offsets and sizes are in sectors.  A decryption succeeds only with the  *)
(* right key (AES-CCM checks a tag): it is a comparison here.              *)
(***************************************************************************)
EXTENDS Integers, Sequences, FiniteSets

CONSTANT MetadataSize          \* BITLK_FVE_METADATA_SIZE

MAX_BITLK_SEGMENTS == 10
ENOTSUP == -95
EPERM == -1
EINVALID == -22

\* The protections of a VMK that can be used, as the user's input fits them.
Usable == {"passphrase", "recovery", "startup"}

\* parse_vmk_entry: an unknown property is refused in a VMK that could be used.
VmkParses(vmk) == vmk.known \/ vmk.protection \notin Usable

NoParams(sb) == [vmks |-> <<>>, fvek |-> "none", state |-> sb.state, type |-> sb.guid]

\* The signature, versions, sector size and cipher.
HeaderRead(sb) ==
  IF sb.signature \notin {"bitlk", "togo"} THEN EINVALID
  ELSE IF sb.boot = "v1" THEN ENOTSUP
  ELSE IF sb.boot # "v2" \/ sb.sector_size \notin {0, 512, 4096} THEN EINVALID
  ELSE IF sb.cipher = "unknown" THEN ENOTSUP
  ELSE 0

\* The entries of the first metadata area in their order, up to one of size 0.
EntriesRead(sb) ==
  LET ends == {i \in DOMAIN sb.entries : sb.entries[i].type = "end"}
      n == IF ends = {} THEN Len(sb.entries) ELSE (CHOOSE i \in ends : \A j \in ends : i <= j) - 1
      P[i \in 0..n] ==
        IF i = 0 THEN [r |-> 0, params |-> NoParams(sb)]
        ELSE LET p == P[i - 1].params
                 e == sb.entries[i]
             IN  IF P[i - 1].r < 0 THEN P[i - 1]
                 ELSE CASE e.type = "vmk" /\ ~VmkParses(e.vmk) -> [r |-> EINVALID, params |-> p]
                        [] e.type = "vmk" /\ VmkParses(e.vmk) -> [r |-> 0, params |-> [p EXCEPT !.vmks = Append(@, e.vmk)]]
                        [] e.type = "fvek" -> [r |-> 0, params |-> [p EXCEPT !.fvek = e.key]]
                        [] OTHER -> [r |-> 0, params |-> p]
  IN  P[n]

BITLK_read_sb(sb) ==
  IF HeaderRead(sb) < 0 THEN [r |-> HeaderRead(sb), params |-> NoParams(sb)] ELSE EntriesRead(sb)

\* Only a volume that is encrypted as a whole can be mapped.
_activate_check(params) ==
  IF \/ ~params.state
     \/ params.type # "normal"
     \/ \E i \in DOMAIN params.vmks : params.vmks[i].protection = "clear"
  THEN ENOTSUP ELSE 0

\* bitlk_kdf, get_recovery_key, get_startup_key: what the user's input is for a
\* VMK.  A recovery key has its own format; a startup key names its VMK.
DecKey(vmk, password) ==
  CASE vmk.protection = "passphrase" -> [r |-> 0, key |-> password.text]
    [] vmk.protection = "recovery" -> [r |-> IF password.form = "recovery" THEN 0 ELSE EPERM, key |-> password.text]
    [] vmk.protection = "startup" ->
         [r |-> IF password.form = "bek" /\ password.guid = vmk.guid THEN 0 ELSE EPERM, key |-> password.text]
    [] OTHER -> [r |-> ENOTSUP, key |-> "none"]

\* Mutation: the first VMK that does not open ends the search.
NextVmkNever(k) == FALSE

\* The search goes on to the next VMK after an error, unless the decryption is not
\* supported.
NextVmk(k) == k.r # 0 /\ ~k.stop

\* BITLK_get_volume_key: the VMKs in their order.  An unusable VMK leaves an
\* earlier error as it is.  ccm: the crypto backend can decrypt keys.
BITLK_get_volume_key(params, password, ccm) ==
  LET n == Len(params.vmks)
      Error(r) == [r |-> r, key |-> "none", stop |-> FALSE]
      K[i \in 0..n] ==
        IF i = 0 THEN Error(0)
        ELSE LET vmk == params.vmks[i]
                 dec == DecKey(vmk, password)
             IN  IF i > 1 /\ ~NextVmk(K[i - 1]) THEN K[i - 1]
                 ELSE IF vmk.protection \notin Usable THEN Error(IF K[i - 1].r = 0 THEN ENOTSUP ELSE K[i - 1].r)
                 ELSE IF dec.r # 0 THEN Error(dec.r)
                 ELSE IF ~ccm THEN [Error(ENOTSUP) EXCEPT !.stop = TRUE]
                 ELSE IF dec.key # vmk.secret THEN Error(EPERM)
                 ELSE IF params.fvek # vmk.opens THEN Error(EPERM)
                 ELSE [r |-> 0, key |-> params.fvek, stop |-> FALSE]
  IN  K[n]

-----------------------------------------------------------------------------
\* Mutation: the limit is checked before the end of the device is noticed.
FullBeforeEnd(s, size) == Len(s.segments) = MAX_BITLK_SEGMENTS

\* The array is full and the device is not covered yet.
Full(s, size) == s.last # size /\ Len(s.segments) = MAX_BITLK_SEGMENTS

SegEnd(s) == s.offset + s.length

\* Where the next dm-crypt segment starts and ends: behind the first segment that
\* ends at or after the last one added, up to the next segment.
NextStart(segments, last, size) ==
  LET ends == {SegEnd(segments[i]) : i \in DOMAIN segments}
      S == {size} \cup {e \in ends : e < size /\ e >= last}
  IN  CHOOSE x \in S : \A y \in S : x <= y
NextEnd(segments, start, size) ==
  LET S == {size} \cup {o \in {segments[i].offset : i \in DOMAIN segments} : o < size /\ o >= start}
  IN  CHOOSE x \in S : \A y \in S : x <= y

\* One turn of the loop that fills the gaps.  Two segments without a gap only
\* move the place where the search goes on.
FillGap(s, size) ==
  LET start == NextStart(s.segments, s.last, size)
      end == NextEnd(s.segments, start, size)
      added == [segments |-> Append(s.segments, [offset |-> start, length |-> end - start, iv |-> start, type |-> "crypt"]),
                last |-> end, r |-> "more"]
  IN  IF end = start THEN [s EXCEPT !.last = end + 1]
      ELSE IF Full(added, size) THEN [added EXCEPT !.r = "EINVAL"]
      ELSE IF end = size THEN [added EXCEPT !.r = "done"]
      ELSE added

\* The segments of the volume as _activate has them before the loop: the three
\* metadata areas and the place of the moved header read as zeroes, and the
\* header is read from there.
FixedSegments(v) ==
  [i \in 1..3 |-> [offset |-> v.metadata[i], length |-> MetadataSize, iv |-> 0, type |-> "zero"]]
  \o << [offset |-> v.header, length |-> v.headerSize, iv |-> 0, type |-> "zero"],
        [offset |-> 0, length |-> v.headerSize, iv |-> v.header, type |-> "crypt"] >>

\* The loop, at most as many turns as there can be segments and abutting ones.
GapsFilled(v) ==
  LET S[k \in 0..MAX_BITLK_SEGMENTS] ==
        IF k = 0 THEN [segments |-> FixedSegments(v), last |-> v.headerSize, r |-> "more"]
        ELSE IF S[k - 1].r # "more" THEN S[k - 1]
        ELSE FillGap(S[k - 1], v.size)
  IN  S[MAX_BITLK_SEGMENTS]

\* _activate: the segments in the order of their offsets, which all differ.
_activate(v) ==
  LET g == GapsFilled(v)
      Rank(i) == Cardinality({j \in DOMAIN g.segments : \/ g.segments[j].offset < g.segments[i].offset
                                                        \/ g.segments[j].offset = g.segments[i].offset /\ j < i}) + 1
  IN  [r |-> g.r, table |-> [k \in 1..Len(g.segments) |-> g.segments[CHOOSE i \in DOMAIN g.segments : Rank(i) = k]]]

\* BITLK_activate_by_passphrase.
BITLK_activate_by_passphrase(sb, password, ccm) ==
  LET read == BITLK_read_sb(sb)
      key == BITLK_get_volume_key(read.params, password, ccm)
  IN  IF read.r < 0 THEN [r |-> read.r, key |-> "none"]
      ELSE IF _activate_check(read.params) < 0 THEN [r |-> _activate_check(read.params), key |-> "none"]
      ELSE key
=============================================================================
