--------------------------- MODULE ReencryptProofs ---------------------------
(***************************************************************************)
(* Reencrypt keeps data and keys for every device, length of hotzones,     *)
(* sequence of runs and number of faults, proved from the inductive        *)
(* invariant ReencryptInv.                                                 *)
(*                                                                         *)
(* The argument has three layers.  Structure holds whatever fails: the     *)
(* segments of a header are new data, at most one hotzone and old data, in *)
(* the direction of the run (Clean, Hot), and the context of the process   *)
(* is at the border between them (Aligned).  NotOld holds until a hash     *)
(* fails: a sector that is still under the old key is not in a segment     *)
(* with the new one, and if it is in the hot segment the area of the       *)
(* reencrypt keyslot has it; so the old key may go when the header in      *)
(* memory is all new.  Sound holds under the faults that the code handles: *)
(* each sector has the key of its segment, or is in the hot segment and in *)
(* the area (DecodableAt), and the keyslots are there until the data do    *)
(* not need them (KeysPart).                                               *)
(*                                                                         *)
(* All faults are one step, Stop: the context is gone, the pending header  *)
(* is committed or not, and the sectors of the hotzone are old, new or, by *)
(* journal, torn.                                                          *)
(***************************************************************************)
EXTENDS Reencrypt, SequenceTheorems, TLAPS

-----------------------------------------------------------------------------
(* Sequences of one, two and three segments                                *)

(* Concatenation of explicit sequences.                                    *)
LEMMA Pair ==
    ASSUME NEW S, NEW a \in S, NEW b \in S
    PROVE  <<a>> \o <<b>> = <<a, b>>
  <1>1. <<a>> \in Seq(S) /\ <<b>> \in Seq(S) /\ <<a, b>> \in Seq(S)
    OBVIOUS
  <1>2. /\ <<a>> \o <<b>> \in Seq(S)
        /\ Len(<<a>> \o <<b>>) = 2
        /\ (<<a>> \o <<b>>)[1] = a
        /\ (<<a>> \o <<b>>)[2] = b
    BY <1>1, ConcatProperties
  <1>3. Len(<<a, b>>) = 2 /\ <<a, b>>[1] = a /\ <<a, b>>[2] = b
    OBVIOUS
  <1>4. ASSUME NEW i \in 1..2
        PROVE  (<<a>> \o <<b>>)[i] = <<a, b>>[i]
    <2>1. i = 1 \/ i = 2
      OBVIOUS
    <2> QED BY <2>1, <1>2, <1>3
  <1> QED BY <1>1, <1>2, <1>3, <1>4, SeqEqual, Zenon

LEMMA Triple ==
    ASSUME NEW S, NEW a \in S, NEW b \in S, NEW c \in S
    PROVE  <<a, b>> \o <<c>> = <<a, b, c>>
  <1>1. <<a, b>> \in Seq(S) /\ <<c>> \in Seq(S) /\ <<a, b, c>> \in Seq(S)
    OBVIOUS
  <1>2. /\ <<a, b>> \o <<c>> \in Seq(S)
        /\ Len(<<a, b>> \o <<c>>) = 3
        /\ (<<a, b>> \o <<c>>)[1] = a
        /\ (<<a, b>> \o <<c>>)[2] = b
        /\ (<<a, b>> \o <<c>>)[3] = c
    BY <1>1, ConcatProperties
  <1>3. /\ Len(<<a, b, c>>) = 3
        /\ <<a, b, c>>[1] = a /\ <<a, b, c>>[2] = b /\ <<a, b, c>>[3] = c
    OBVIOUS
  <1>4. ASSUME NEW i \in 1..3
        PROVE  (<<a, b>> \o <<c>>)[i] = <<a, b, c>>[i]
    <2>1. i = 1 \/ i = 2 \/ i = 3
      OBVIOUS
    <2> QED BY <2>1, <1>2, <1>3
  <1> QED BY <1>1, <1>2, <1>3, <1>4, SeqEqual, Zenon

(* What the operators on segments give for explicit sequences.             *)
LEMMA OneSegment ==
    ASSUME NEW x \in Segment, x.size = N
    PROVE  /\ <<x>> \in UNION {[1..k -> Segment] : k \in 1..3}
           /\ Len(<<x>>) = 1
           /\ HotSeg(<<x>>) = IF x.key = "hot" THEN 1 ELSE 0
           /\ SegStart(<<x>>, 1) = 0
           /\ \A i \in Sector : KeyOf(<<x>>, i) = x.key
  <1> DEFINE s == <<x>>
  <1>1. /\ s \in [1..1 -> Segment] /\ DOMAIN s = {1} /\ s[1] = x /\ Len(s) = 1
    OBVIOUS
  <1>2. s \in UNION {[1..k -> Segment] : k \in 1..3}
    BY <1>1
  <1> HIDE DEF s
  <1>3. HotSeg(s) = IF x.key = "hot" THEN 1 ELSE 0
    BY <1>1 DEF HotSeg
  <1>4. SegStart(s, 1) = 0
    BY DEF SegStart
  <1>5. ASSUME NEW i \in Sector
        PROVE  KeyOf(s, i) = x.key
    <2>1. \A k \in DOMAIN s :
             SegStart(s, k) <= i /\ i < SegStart(s, k) + s[k].size <=> k = 1
      BY <1>1, <1>4, ReencryptConstants DEF Sector
    <2> QED BY <2>1, <1>1 DEF KeyOf
  <1> QED BY <1>1, <1>2, <1>3, <1>4, <1>5 DEF s

LEMMA TwoSegments ==
    ASSUME NEW x \in Segment, NEW y \in Segment, x.size + y.size = N
    PROVE  /\ <<x, y>> \in UNION {[1..k -> Segment] : k \in 1..3}
           /\ Len(<<x, y>>) = 2
           /\ <<x, y>>[1] = x
           /\ x.key # "hot" /\ y.key # "hot" => HotSeg(<<x, y>>) = 0
           /\ x.key = "hot" /\ y.key # "hot" => HotSeg(<<x, y>>) = 1
           /\ x.key # "hot" /\ y.key = "hot" => HotSeg(<<x, y>>) = 2
           /\ SegStart(<<x, y>>, 1) = 0 /\ SegStart(<<x, y>>, 2) = x.size
           /\ \A i \in Sector :
                KeyOf(<<x, y>>, i) = IF i < x.size THEN x.key ELSE y.key
  <1> DEFINE s == <<x, y>>
  <1>1. /\ s \in [1..2 -> Segment] /\ DOMAIN s = {1, 2} /\ s[1] = x /\ s[2] = y
        /\ Len(s) = 2
    OBVIOUS
  <1>2. s \in UNION {[1..k -> Segment] : k \in 1..3}
    BY <1>1
  <1>0. x.size \in Nat /\ x.size > 0 /\ y.size \in Nat /\ y.size > 0 /\ N \in Nat
    BY ReencryptConstants DEF Segment
  <1> HIDE DEF s
  <1>3. /\ x.key # "hot" /\ y.key # "hot" => HotSeg(s) = 0
        /\ x.key = "hot" /\ y.key # "hot" => HotSeg(s) = 1
        /\ x.key # "hot" /\ y.key = "hot" => HotSeg(s) = 2
    BY <1>1 DEF HotSeg
  <1>4. SegStart(s, 1) = 0 /\ SegStart(s, 2) = x.size
    BY <1>1, <1>0 DEF SegStart
  <1>5. ASSUME NEW i \in Sector
        PROVE  KeyOf(s, i) = IF i < x.size THEN x.key ELSE y.key
    <2>1. CASE i < x.size
      <3>1. \A k \in DOMAIN s :
               SegStart(s, k) <= i /\ i < SegStart(s, k) + s[k].size <=> k = 1
        BY <1>1, <1>4, <1>0, <2>1 DEF Sector
      <3> QED BY <3>1, <1>1, <2>1 DEF KeyOf
    <2>2. CASE ~(i < x.size)
      <3>1. \A k \in DOMAIN s :
               SegStart(s, k) <= i /\ i < SegStart(s, k) + s[k].size <=> k = 2
        BY <1>1, <1>4, <1>0, <2>2 DEF Sector
      <3> QED BY <3>1, <1>1, <2>2 DEF KeyOf
    <2> QED BY <2>1, <2>2
  <1> QED BY <1>1, <1>2, <1>3, <1>4, <1>5 DEF s

LEMMA ThreeSegments ==
    ASSUME NEW x \in Segment, NEW y \in Segment, NEW z \in Segment,
           x.size + y.size + z.size = N,
           x.key # "hot", y.key = "hot", z.key # "hot"
    PROVE  /\ <<x, y, z>> \in UNION {[1..k -> Segment] : k \in 1..3}
           /\ <<x, y, z>>[2] = y
           /\ HotSeg(<<x, y, z>>) = 2
           /\ SegStart(<<x, y, z>>, 2) = x.size
           /\ \A i \in Sector :
                KeyOf(<<x, y, z>>, i) = IF i < x.size THEN x.key
                                        ELSE IF i < x.size + y.size THEN "hot"
                                        ELSE z.key
  <1> DEFINE s == <<x, y, z>>
  <1>1. /\ s \in [1..3 -> Segment] /\ DOMAIN s = {1, 2, 3}
        /\ s[1] = x /\ s[2] = y /\ s[3] = z
    OBVIOUS
  <1>2. s \in UNION {[1..k -> Segment] : k \in 1..3}
    BY <1>1
  <1>0. /\ x.size \in Nat /\ x.size > 0 /\ y.size \in Nat /\ y.size > 0
        /\ z.size \in Nat /\ z.size > 0 /\ N \in Nat
    BY ReencryptConstants DEF Segment
  <1> HIDE DEF s
  <1>3. HotSeg(s) = 2
    BY <1>1 DEF HotSeg
  <1>4. /\ SegStart(s, 1) = 0 /\ SegStart(s, 2) = x.size
        /\ SegStart(s, 3) = x.size + y.size
    BY <1>1, <1>0 DEF SegStart
  <1>5. ASSUME NEW i \in Sector
        PROVE  KeyOf(s, i) = IF i < x.size THEN x.key
                             ELSE IF i < x.size + y.size THEN "hot" ELSE z.key
    <2> DEFINE Holds(k) == SegStart(s, k) <= i /\ i < SegStart(s, k) + s[k].size
    <2>1. CASE i < x.size
      <3>1. \A k \in DOMAIN s : Holds(k) <=> k = 1
        BY <1>1, <1>4, <1>0, <2>1 DEF Sector
      <3> QED BY <3>1, <1>1, <2>1 DEF KeyOf
    <2>2. CASE ~(i < x.size) /\ i < x.size + y.size
      <3>1. \A k \in DOMAIN s : Holds(k) <=> k = 2
        BY <1>1, <1>4, <1>0, <2>2 DEF Sector
      <3> QED BY <3>1, <1>1, <2>2 DEF KeyOf
    <2>3. CASE ~(i < x.size) /\ ~(i < x.size + y.size)
      <3>1. \A k \in DOMAIN s : Holds(k) <=> k = 3
        BY <1>1, <1>4, <1>0, <2>3 DEF Sector
      <3> QED BY <3>1, <1>1, <2>3 DEF KeyOf
    <2> QED BY <2>1, <2>2, <2>3
  <1> QED BY <1>1, <1>2, <1>3, <1>4, <1>5 DEF s

-----------------------------------------------------------------------------
(* The two forms that the segments of a header have: clean, with b sectors *)
(* under the new key, or with a hot segment of length l at o.              *)

Direction == {"forward", "backward"}

Clean(d, b) ==
    IF d = "forward" THEN Seg("new", b) \o Seg("old", N - b)
    ELSE Seg("old", N - b) \o Seg("new", b)

Hot(d, o, l) == HotSegs(d, [offset |-> o, length |-> l])

(* Sector i is among the first b sectors in the direction of the run.      *)
Passed(d, b, i) == IF d = "forward" THEN i < b ELSE i >= N - b

(* The number of sectors passed before, and with, a hotzone.               *)
Before(d, o, l) == IF d = "forward" THEN o ELSE N - (o + l)
After(d, o, l) == IF d = "forward" THEN o + l ELSE N - o

(* Segments without a hotzone.                                             *)
LEMMA CleanSegments ==
    ASSUME NEW d \in Direction, NEW b \in 0..N
    PROVE  /\ Clean(d, b) \in UNION {[1..k -> Segment] : k \in 1..3}
           /\ HotSeg(Clean(d, b)) = 0
           /\ \A i \in Sector : KeyOf(Clean(d, b), i)
                                  = IF Passed(d, b, i) THEN "new" ELSE "old"
           /\ b \in {0, N} => Len(Clean(d, b)) = 1
           /\ b \notin {0, N} =>
                /\ Len(Clean(d, b)) = 2
                /\ Clean(d, b)[1].size = IF d = "forward" THEN b ELSE N - b
           /\ b = 0 => Clean(d, b) = <<[key |-> "old", size |-> N]>>
           /\ b # N => Clean(d, b) # <<[key |-> "new", size |-> N]>>
           /\ b = N => Clean(d, b) = <<[key |-> "new", size |-> N]>>
  <1>0. N \in Nat /\ N > 0 /\ b \in Nat /\ b <= N /\ N - b \in Nat
    BY ReencryptConstants
  <1> DEFINE x(k, n) == [key |-> k, size |-> n]
  <1>1. ASSUME NEW k \in {"old", "new"}, NEW n \in 1..N
        PROVE  x(k, n) \in Segment /\ x(k, n).size = n /\ x(k, n).key = k
    BY <1>1 DEF Segment, Key
  <1>2. CASE b = 0
    <2>1. Clean(d, b) = <<x("old", N)>>
      BY <1>0, <1>2 DEF Clean, Seg
    <2>2. \A i \in Sector : ~Passed(d, b, i)
      BY <1>0, <1>2 DEF Passed, Sector
    <2>3. x("old", N) \in Segment /\ x("old", N).size = N /\ x("old", N).key = "old"
      BY <1>1, <1>0
    <2>4. <<x("new", N)>> # <<x("old", N)>>
      OBVIOUS
    <2>5. \A i \in Sector : KeyOf(Clean(d, b), i) = "old"
      BY <2>1, <2>3, OneSegment
    <2> QED BY <2>1, <2>2, <2>3, <2>4, <2>5, <1>2, <1>0, OneSegment
  <1>3. CASE b = N
    <2>1. Clean(d, b) = <<x("new", N)>>
      BY <1>0, <1>3 DEF Clean, Seg
    <2>2. \A i \in Sector : Passed(d, b, i)
      BY <1>0, <1>3 DEF Passed, Sector
    <2>3. x("new", N) \in Segment /\ x("new", N).size = N /\ x("new", N).key = "new"
      BY <1>1, <1>0
    <2>5. \A i \in Sector : KeyOf(Clean(d, b), i) = "new"
      BY <2>1, <2>3, OneSegment
    <2> QED BY <2>1, <2>2, <2>3, <2>5, <1>3, <1>0, OneSegment
  <1>4. CASE b # 0 /\ b # N
    <2> DEFINE u == IF d = "forward" THEN "new" ELSE "old"
               v == IF d = "forward" THEN "old" ELSE "new"
               m == IF d = "forward" THEN b ELSE N - b
    <2>0. u \in {"old", "new"} /\ v \in {"old", "new"} /\ m \in 1..N /\ N - m \in 1..N
      BY <1>0, <1>4
    <2>1. Clean(d, b) = <<x(u, m)>> \o <<x(v, N - m)>>
      BY <1>0, <1>4 DEF Clean, Seg, Direction
    <2>2. \A i \in Sector : Passed(d, b, i) <=> (i < m) = (d = "forward")
      BY <1>0, <1>4 DEF Passed, Sector
    <2>3. /\ x(u, m) \in Segment /\ x(u, m).size = m /\ x(u, m).key = u
          /\ x(v, N - m) \in Segment /\ x(v, N - m).size = N - m
          /\ x(v, N - m).key = v
      BY <1>1, <2>0
    <2>4. x(u, m).size + x(v, N - m).size = N
      BY <2>3, <2>0, <1>0
    <2>5. Clean(d, b) = <<x(u, m), x(v, N - m)>>
      BY <2>1, <2>3, Pair
    <2>6. /\ u = IF d = "forward" THEN "new" ELSE "old"
          /\ v = IF d = "forward" THEN "old" ELSE "new"
          /\ m = IF d = "forward" THEN b ELSE N - b
      OBVIOUS
    <2> HIDE DEF x, u, v, m
    <2>7. /\ Clean(d, b) \in UNION {[1..k -> Segment] : k \in 1..3}
          /\ HotSeg(Clean(d, b)) = 0
          /\ Len(Clean(d, b)) = 2
          /\ Clean(d, b)[1] = x(u, m)
          /\ \A i \in Sector : KeyOf(Clean(d, b), i) = IF i < m THEN u ELSE v
      BY <2>5, <2>3, <2>4, <2>0, TwoSegments
    <2>8. ASSUME NEW i \in Sector
          PROVE  KeyOf(Clean(d, b), i) = IF Passed(d, b, i) THEN "new" ELSE "old"
      BY <2>7, <2>2, <2>6 DEF Direction
    <2>9. Clean(d, b) # <<[key |-> "new", size |-> N]>>
      BY <2>7, Len(<<[key |-> "new", size |-> N]>>) = 1
    <2> QED BY <2>7, <2>8, <2>9, <2>3, <2>6, <1>4
  <1> QED BY <1>2, <1>3, <1>4

(* Segments with a hotzone.                                                *)
LEMMA HotSegments ==
    ASSUME NEW d \in Direction, NEW o \in Nat, NEW l \in Nat \ {0}, o + l <= N
    PROVE  /\ Hot(d, o, l) \in UNION {[1..k -> Segment] : k \in 1..3}
           /\ HotSeg(Hot(d, o, l)) \in {1, 2}
           /\ SegStart(Hot(d, o, l), HotSeg(Hot(d, o, l))) = o
           /\ Hot(d, o, l)[HotSeg(Hot(d, o, l))].size = l
           /\ \A i \in Sector :
                KeyOf(Hot(d, o, l), i) =
                    IF o <= i /\ i < o + l THEN "hot"
                    ELSE IF Passed(d, Before(d, o, l), i) THEN "new" ELSE "old"
           /\ PostSegs(d, Hot(d, o, l)) = Clean(d, After(d, o, l))
  <1> DEFINE x(k, n) == [key |-> k, size |-> n]
             u == IF d = "forward" THEN "new" ELSE "old"
             v == IF d = "forward" THEN "old" ELSE "new"
             r == N - (o + l)
             s == Hot(d, o, l)
  <1>0. N \in Nat /\ N > 0 /\ r \in Nat /\ o + l + r = N
    BY ReencryptConstants
  <1>1. ASSUME NEW k \in Key, NEW n \in Nat, n > 0, n <= N
        PROVE  x(k, n) \in Segment /\ x(k, n).size = n /\ x(k, n).key = k
    BY <1>1, <1>0 DEF Segment
  <1>2. u \in Key /\ v \in Key /\ "hot" \in Key /\ u # "hot" /\ v # "hot"
    BY DEF Key
  <1>3. s = Seg(u, o) \o Seg("hot", l) \o Seg(v, r)
    BY DEF Hot, HotSegs
  <1>4. ASSUME NEW i \in Sector
        PROVE  /\ ~(o <= i /\ i < o + l) =>
                    (Passed(d, Before(d, o, l), i) <=> (i < o) = (d = "forward"))
    BY <1>0 DEF Passed, Before, Sector
  <1>5. /\ u = IF d = "forward" THEN "new" ELSE "old"
        /\ v = IF d = "forward" THEN "old" ELSE "new"
    OBVIOUS
  <1>6. /\ x("hot", l) \in Segment /\ x("hot", l).size = l /\ x("hot", l).key = "hot"
        /\ o # 0 => x(u, o) \in Segment /\ x(u, o).size = o /\ x(u, o).key = u
        /\ r # 0 => x(v, r) \in Segment /\ x(v, r).size = r /\ x(v, r).key = v
    <2>1. l > 0 /\ l <= N /\ o <= N /\ r <= N /\ (o # 0 => o > 0) /\ (r # 0 => r > 0)
      BY <1>0
    <2> QED BY <1>1, <1>2, <1>0, <2>1
  <1> DEFINE Form == /\ s \in UNION {[1..k -> Segment] : k \in 1..3}
                     /\ HotSeg(s) \in {1, 2}
                     /\ SegStart(s, HotSeg(s)) = o
                     /\ s[HotSeg(s)].size = l
                     /\ \A i \in Sector :
                          KeyOf(s, i) = IF i < o THEN u
                                        ELSE IF i < o + l THEN "hot" ELSE v
  <1>7. Form
    <2>1. CASE o = 0 /\ r = 0
      <3>1. s = <<x("hot", l)>>
        BY <1>3, <2>1, <1>0 DEF Seg
      <3>2. x("hot", l).size = N
        BY <1>6, <1>0, <2>1
      <3>3. s[1] = x("hot", l)
        BY <3>1
      <3> HIDE DEF x, s
      <3>4. /\ s \in UNION {[1..k -> Segment] : k \in 1..3}
            /\ HotSeg(s) = 1 /\ SegStart(s, 1) = 0
            /\ \A i \in Sector : KeyOf(s, i) = "hot"
        BY <3>1, <3>2, <1>6, OneSegment
      <3>5. ASSUME NEW i \in Sector
            PROVE  ~(i < o) /\ i < o + l
        BY <1>0, <2>1 DEF Sector
      <3> QED BY <3>3, <3>4, <3>5, <1>6, <2>1
    <2>2. CASE o = 0 /\ r # 0
      <3>1. s = <<x("hot", l)>> \o <<x(v, r)>>
        BY <1>3, <2>2, <1>0 DEF Seg
      <3>2. s = <<x("hot", l), x(v, r)>>
        BY <3>1, <1>6, <2>2, Pair
      <3>3. x("hot", l).size + x(v, r).size = N
        BY <1>6, <1>0, <2>2
      <3> HIDE DEF x, s, v, r
      <3> QED BY <3>2, <3>3, <1>6, <1>0, <2>2, <1>2, TwoSegments DEF Sector
    <2>3. CASE o # 0 /\ r = 0
      <3>1. s = <<x(u, o)>> \o <<x("hot", l)>>
        BY <1>3, <2>3, <1>0, <1>6, Pair DEF Seg
      <3>2. s = <<x(u, o), x("hot", l)>>
        BY <3>1, <1>6, <2>3, Pair
      <3>3. x(u, o).size + x("hot", l).size = N
        BY <1>6, <1>0, <2>3
      <3>4. s[2] = x("hot", l)
        BY <3>2
      <3> HIDE DEF x, s, u, r
      <3> QED BY <3>2, <3>3, <3>4, <1>6, <1>0, <2>3, <1>2, TwoSegments DEF Sector
    <2>4. CASE o # 0 /\ r # 0
      <3>1. s = <<x(u, o)>> \o <<x("hot", l)>> \o <<x(v, r)>>
        BY <1>3, <2>4, <1>0 DEF Seg
      <3>2. s = <<x(u, o), x("hot", l)>> \o <<x(v, r)>>
        BY <3>1, <1>6, <2>4, Pair
      <3>3. s = <<x(u, o), x("hot", l), x(v, r)>>
        BY <3>2, <1>6, <2>4, Triple
      <3>4. x(u, o).size + x("hot", l).size + x(v, r).size = N
        BY <1>6, <1>0, <2>4
      <3> HIDE DEF x, s, u, v, r
      <3> QED BY <3>3, <3>4, <1>6, <1>0, <2>4, <1>2, ThreeSegments
    <2> QED BY <2>1, <2>2, <2>3, <2>4
  <1> HIDE DEF s
  <1>8. ASSUME NEW i \in Sector
        PROVE  KeyOf(s, i) =
                    IF o <= i /\ i < o + l THEN "hot"
                    ELSE IF Passed(d, Before(d, o, l), i) THEN "new" ELSE "old"
    <2>1. i \in Nat
      BY <1>0 DEF Sector
    <2> QED BY <1>7, <1>4, <1>5, <1>0, <2>1 DEF Direction
  <1>9. PostSegs(d, s) = Clean(d, After(d, o, l))
    <2>1. PostSegs(d, s) = IF d = "forward" THEN Seg("new", o + l) \o Seg("old", N - (o + l))
                           ELSE Seg("old", o) \o Seg("new", N - o)
      BY <1>7 DEF PostSegs
    <2>2. N - (N - o) = o
      BY <1>0
    <2> QED BY <2>1, <2>2 DEF Clean, After
  <1> QED BY <1>7, <1>8, <1>9 DEF s

-----------------------------------------------------------------------------
(* The inductive invariant                                                 *)

(* What is written stays written, or one power failure, the only fault,    *)
(* takes back sectors that are not synced.                                 *)
Settled(w) ==
    \/ w.volatile = {}
    \/ /\ w.volatile = {"data"} /\ "none" \notin w.types
       /\ w.deaths = 0 /\ w.ioerrs = 0 /\ w.powers <= 1

Foreseen == \A w \in Worlds : Settled(w)

IsClean(h) == \E b \in 0..N : h.segs = Clean(h.direction, b)

IsHot(h) ==
    \E o \in 0..N, l \in 1..Zone :
        o + l <= N /\ h.segs = Hot(h.direction, o, l)

HeaderOK(h) ==
    /\ h \in Header
    /\ IsClean(h) \/ IsHot(h)

(* The context of a run in direction d that is not a recovery.             *)
Aligned(r, d) ==
    /\ r.length <= Zone /\ r.progress + r.length <= N
    /\ r.progress < N => r.length > 0
    /\ r.offset = IF d = "forward" THEN r.progress
                  ELSE N - (r.progress + r.length)

Stepping == {"read", "protect", "hot", "write", "sync", "post"}
Ending == {"wipeold", "dropold", "wipereenc", "dropreenc", "unflag"}

(* The header on disk names the hotzone.                                   *)
Named == pc \in {"write", "sync", "post"} /\ rh.type # "none"

LoopPart ==
    pc = "loop" =>
        /\ ~rh.recovery /\ ~stale
        /\ \/ mem.segs = Clean(mem.direction, rh.progress)
           \/ /\ mem.segs = Clean(mem.direction, N)
              /\ rh.progress = 0 /\ rh.read = 0

StepPart ==
    pc \in Stepping =>
        /\ ~rh.recovery /\ ~stale /\ rh.progress < N
        /\ mem.segs = Hot(mem.direction, rh.offset, rh.length)
        /\ mem.type = rh.type
        /\ pc # "read" => rh.read = rh.length
        /\ pc \in {"protect", "hot", "sync"} => rh.type # "none"

RecoverPart ==
    pc = "recover" =>
        /\ rh.recovery /\ ~stale /\ mem = hdr
        /\ rh.type = hdr.type /\ hdr.type # "none"
        /\ rh.length \in 1..Zone /\ rh.offset + rh.length <= N
        /\ hdr.segs = Hot(hdr.direction, rh.offset, rh.length)
        /\ rh.progress = Before(hdr.direction, rh.offset, Least(Zone, N - rh.offset))

TeardownPart ==
    pc = "teardown" =>
        /\ ~stale /\ IsClean(mem)
        /\ rh.recovery => rh.type # "none"
        /\ ~rh.recovery => mem.segs = Clean(mem.direction, rh.progress)
        /\ Finished(rh) => mem.segs = Clean(mem.direction, N)

EndPart ==
    /\ pc \in Ending => mem.segs = Clean(mem.direction, N)
    /\ pc = "final" => rh.recovery /\ IsClean(mem)

DiskPart ==
    /\ stale => rh.recovery
    /\ IsClean(hdr) \/ hdr.type # "none"
    /\ Named => hdr = mem
    /\ pc # "idle" /\ ~rh.recovery /\ ~Named => IsClean(hdr)
    /\ ~oldkey => pc \in Ending \cup {"idle", "final"}

Structure ==
    /\ TypeOK /\ HeaderOK(hdr) /\ HeaderOK(mem)
    /\ pc = "idle" => rh = NoContext /\ mem = Formatted /\ ~stale
    /\ pc # "idle" /\ ~rh.recovery => Aligned(rh, mem.direction)
    /\ LoopPart /\ StepPart /\ RecoverPart /\ TeardownPart /\ EndPart /\ DiskPart

(* Area a has, for sector i of a hotzone at o, content c.                  *)
Cell(a, t, o, i, c) ==
    /\ a.type = t
    /\ i - o + 1 \in DOMAIN a.cells
    /\ a.cells[i - o + 1] = <<i, c>>

HotStart(h) == SegStart(h.segs, HotSeg(h.segs))

(* Header h and area a are no reason to give up the old key while sector i *)
(* with content c needs it.                                                *)
NotOldAt(h, a, i, c) ==
    c = "old" =>
        /\ KeyOf(h.segs, i) # "new"
        /\ KeyOf(h.segs, i) = "hot" => Cell(a, h.type, HotStart(h), i, "old")

InZone(r, i) == r.offset <= i /\ i < r.offset + r.length

NotOld ==
    /\ \A i \in Sector : NotOldAt(hdr, area, i, data[i])
    /\ pc # "idle" =>
          \A i \in Sector : KeyOf(mem.segs, i) = "new" => data[i] # "old"
    /\ pc \in {"sync", "post"} =>
          \A i \in Sector : InZone(rh, i) => data[i] # "old"
    /\ pc = "hot" => \A i \in Sector : NotOldAt(mem, area, i, data[i])
    /\ ~oldkey => \A i \in Sector : data[i] # "old"

(* Before the one power failure of a world that loses data.                *)
Volatile ==
    world.volatile # {} /\ powers = 0 =>
        /\ ~rh.recovery
        /\ pc = "idle" => IsClean(hdr)
        /\ pc # "idle" => rh.type # "none"
        /\ pc # "sync" => synced = data
        /\ pc = "sync" =>
              \A i \in Sector :
                 \/ synced[i] = data[i]
                 \/ InZone(rh, i) /\ NotOldAt(hdr, area, i, synced[i])
                    /\ (Handled => synced[i] = "old")

-----------------------------------------------------------------------------
KeysOn(h) == h.flag /\ h.reencslot /\ h.oldslot

(* A hotzone that would be the last one of a backward run is not short.    *)
Whole(h) ==
    /\ HotSeg(h.segs) # 0 /\ h.direction = "backward" /\ HotStart(h) = 0
    => h.segs[HotSeg(h.segs)].size = Zone

AllNew(h) == h.segs = Clean(h.direction, N)

KeysPart ==
    /\ pc = "idle" =>
          \/ hdr = Formatted /\ oldkey
          \/ KeysOn(hdr) /\ oldkey /\ ~AllNew(hdr)
          \/ ~hdr.flag /\ AllNew(hdr)
    /\ pc \in Stepping \cup {"loop", "recover", "teardown", "wipeold"} =>
          KeysOn(hdr) /\ KeysOn(mem) /\ oldkey
    /\ pc = "final" =>
          \/ KeysOn(hdr) /\ KeysOn(mem) /\ oldkey /\ ~AllNew(mem)
          \/ hdr = mem /\ ~mem.flag /\ AllNew(mem)
    /\ pc \in {"wipereenc", "dropreenc", "unflag"} => hdr = mem
    /\ pc = "loop" => mem.segs = Clean(mem.direction, rh.progress)
    /\ pc = "teardown" /\ ~Finished(rh) => ~AllNew(mem)
    /\ ~stale

WholePart == pc = "idle" \/ rh.recovery => Whole(hdr)

(* The content c of sector i can be decrypted with header h and area a.    *)
DecodableAt(h, a, i, c) ==
    /\ KeyOf(h.segs, i) # "hot" => c = KeyOf(h.segs, i)
    /\ KeyOf(h.segs, i) = "hot" =>
          /\ Cell(a, h.type, HotStart(h), i, "old")
          /\ c # "junk" \/ h.type = "journal"

DataPart ==
    /\ pc = "idle" \/ rh.type # "none" =>
          \A i \in Sector : DecodableAt(hdr, area, i, data[i])
    /\ pc # "idle" =>
          \A i \in Sector :
             KeyOf(mem.segs, i) # "hot" => data[i] = KeyOf(mem.segs, i)
    /\ pc \in {"read", "protect", "hot", "write"} =>
          \A i \in Sector : InZone(rh, i) => data[i] = "old"
    /\ pc \in {"sync", "post"} =>
          \A i \in Sector : InZone(rh, i) => data[i] = "new"
    /\ pc = "hot" => \A i \in Sector : DecodableAt(mem, area, i, data[i])

OrderPart ==
    pc # "idle" =>
        \A i \in Sector : KeyOf(hdr.segs, i) = "new" => KeyOf(mem.segs, i) = "new"

Sound == KeysPart /\ WholePart /\ DataPart /\ OrderPart

ReencryptInv ==
    /\ Structure
    /\ hasherrs = 0 => NotOld /\ Volatile
    /\ Handled => Sound

-----------------------------------------------------------------------------
(* Facts about headers                                                     *)

LEMMA Sizes ==
    /\ N \in Nat /\ N > 0 /\ Zone \in Nat /\ Zone > 0 /\ Zone <= N
    /\ 0 \in Sector
  BY ReencryptConstants DEF Sector

(* A clean header has no hot segment; it is all new when every sector is.  *)
LEMMA CleanHeader ==
    ASSUME NEW h \in Header, IsClean(h)
    PROVE  /\ HotSeg(h.segs) = 0
           /\ \A i \in Sector : KeyOf(h.segs, i) \in {"new", "old"}
           /\ AllNew(h) => \A i \in Sector : KeyOf(h.segs, i) = "new"
           /\ ~AllNew(h) => \E i \in Sector : KeyOf(h.segs, i) = "old"
           /\ ~IsHot(h)
  <1>1. h.direction \in Direction
    BY DEF Header, Direction
  <1>2. PICK b \in 0..N : h.segs = Clean(h.direction, b)
    BY DEF IsClean
  <1>3. /\ HotSeg(h.segs) = 0
        /\ \A i \in Sector : KeyOf(h.segs, i)
                               = IF Passed(h.direction, b, i) THEN "new" ELSE "old"
    BY <1>1, <1>2, CleanSegments
  <1>4. ASSUME AllNew(h)
        PROVE  \A i \in Sector : KeyOf(h.segs, i) = "new"
    <2>1. \A i \in Sector : KeyOf(h.segs, i)
                               = IF Passed(h.direction, N, i) THEN "new" ELSE "old"
      BY <1>1, <1>4, Sizes, CleanSegments DEF AllNew
    <2>2. \A i \in Sector : Passed(h.direction, N, i)
      BY Sizes DEF Passed, Sector
    <2> QED BY <2>1, <2>2
  <1>5. ASSUME ~AllNew(h)
        PROVE  \E i \in Sector : KeyOf(h.segs, i) = "old"
    <2>1. b < N
      BY <1>2, <1>5, Sizes DEF AllNew
    <2> DEFINE i == IF h.direction = "forward" THEN N - 1 ELSE 0
    <2>2. i \in Sector /\ ~Passed(h.direction, b, i)
      BY <2>1, <1>1, Sizes DEF Passed, Sector
    <2> QED BY <2>2, <1>3
  <1>6. ~IsHot(h)
    <2> SUFFICES ASSUME NEW o \in 0..N, NEW l \in 1..Zone, o + l <= N,
                        h.segs = Hot(h.direction, o, l)
                 PROVE  FALSE
      BY DEF IsHot
    <2>1. o \in Nat /\ l \in Nat \ {0}
      BY Sizes
    <2> QED BY <1>1, <1>3, <2>1, HotSegments
  <1> QED BY <1>3, <1>4, <1>5, <1>6

(* What a hot header says.                                                 *)
LEMMA HotHeader ==
    ASSUME NEW h \in Header, NEW o \in Nat, NEW l \in Nat \ {0}, o + l <= N,
           h.segs = Hot(h.direction, o, l)
    PROVE  /\ HotSeg(h.segs) \in {1, 2} /\ HotSeg(h.segs) # 0
           /\ HotStart(h) = o
           /\ h.segs[HotSeg(h.segs)].size = l
           /\ \A i \in Sector : KeyOf(h.segs, i) = "hot" <=> o <= i /\ i < o + l
           /\ \A i \in Sector : KeyOf(h.segs, i) \in {"new", "old", "hot"}
           /\ \A i \in Sector :
                KeyOf(h.segs, i) = "new" =>
                    /\ Passed(h.direction, Before(h.direction, o, l), i)
                    /\ ~(o <= i /\ i < o + l)
           /\ \A i \in Sector :
                ~(o <= i /\ i < o + l) =>
                    KeyOf(h.segs, i) =
                        IF Passed(h.direction, Before(h.direction, o, l), i)
                        THEN "new" ELSE "old"
           /\ PostSegs(h.direction, h.segs) = Clean(h.direction, After(h.direction, o, l))
           /\ ~IsClean(h) /\ ~AllNew(h)
  <1>1. h.direction \in Direction
    BY DEF Header, Direction
  <1>2. /\ HotSeg(h.segs) \in {1, 2}
        /\ SegStart(h.segs, HotSeg(h.segs)) = o
        /\ h.segs[HotSeg(h.segs)].size = l
        /\ \A i \in Sector :
                KeyOf(h.segs, i) =
                    IF o <= i /\ i < o + l THEN "hot"
                    ELSE IF Passed(h.direction, Before(h.direction, o, l), i)
                         THEN "new" ELSE "old"
        /\ PostSegs(h.direction, h.segs) = Clean(h.direction, After(h.direction, o, l))
    BY <1>1, HotSegments
  <1>3. ASSUME NEW b \in 0..N
        PROVE  h.segs # Clean(h.direction, b)
    BY <1>1, <1>2, CleanSegments
  <1>4. ~IsClean(h) /\ ~AllNew(h)
    BY <1>3, Sizes DEF IsClean, AllNew
  <1> QED BY <1>2, <1>4 DEF HotStart

(* Replacing the segments of a header.                                     *)
LEMMA AssignedClean ==
    ASSUME NEW h \in Header, NEW b \in 0..N
    PROVE  LET m == Assigned(h, Clean(h.direction, b))
           IN  /\ m \in Header /\ HeaderOK(m) /\ IsClean(m)
               /\ m.direction = h.direction /\ m.type = h.type
               /\ m.segs = Clean(h.direction, b)
               /\ m.flag = h.flag /\ m.reencslot = h.reencslot
               /\ m.oldslot = h.oldslot
  <1>1. h.direction \in Direction
    BY DEF Header, Direction
  <1>2. Clean(h.direction, b) \in UNION {[1..k -> Segment] : k \in 1..3}
    BY <1>1, CleanSegments
  <1> QED BY <1>2 DEF Assigned, Header, HeaderOK, IsClean

LEMMA AssignedHot ==
    ASSUME NEW h \in Header, NEW t \in {"none", "checksum", "journal"},
           NEW o \in Nat, NEW l \in 1..Zone, o + l <= N
    PROVE  LET m == Assigned(Protected(h, t), Hot(h.direction, o, l))
           IN  /\ m \in Header /\ HeaderOK(m) /\ IsHot(m)
               /\ m.direction = h.direction /\ m.type = t
               /\ m.segs = Hot(h.direction, o, l)
               /\ m.flag = h.flag /\ m.reencslot = h.reencslot
               /\ m.oldslot = h.oldslot
  <1>1. h.direction \in Direction
    BY DEF Header, Direction
  <1>2. l \in Nat \ {0} /\ o \in 0..N
    BY Sizes
  <1>3. Hot(h.direction, o, l) \in UNION {[1..k -> Segment] : k \in 1..3}
    BY <1>1, <1>2, HotSegments
  <1> DEFINE m == Assigned(Protected(h, t), Hot(h.direction, o, l))
  <1>4. /\ m \in Header
        /\ m.direction = h.direction /\ m.type = t
        /\ m.segs = Hot(h.direction, o, l)
        /\ m.flag = h.flag /\ m.reencslot = h.reencslot
        /\ m.oldslot = h.oldslot
    BY <1>3 DEF Assigned, Protected, Header
  <1>5. IsHot(m)
    BY <1>4, <1>2 DEF IsHot
  <1> QED BY <1>4, <1>5 DEF HeaderOK

(* The header without reencryption.                                        *)
LEMMA FormattedHeader ==
    /\ Formatted \in Header /\ HeaderOK(Formatted) /\ IsClean(Formatted)
    /\ Formatted.direction = "forward" /\ ~Formatted.flag
    /\ Formatted.segs = Clean("forward", 0)
  <1>1. Clean("forward", 0) = <<[key |-> "old", size |-> N]>>
    BY CleanSegments, Sizes DEF Direction
  <1>2. Clean("forward", 0) \in UNION {[1..k -> Segment] : k \in 1..3}
    BY CleanSegments, Sizes DEF Direction
  <1>3. Formatted \in Header /\ Formatted.direction = "forward"
        /\ Formatted.segs = Clean("forward", 0) /\ ~Formatted.flag
    BY <1>1, <1>2 DEF Formatted, Header
  <1>4. IsClean(Formatted)
    BY <1>3, Sizes DEF IsClean
  <1> QED BY <1>3, <1>4 DEF HeaderOK

-----------------------------------------------------------------------------
(* The process is gone                                                     *)

LEMMA NoContextOK == NoContext \in Context /\ ~NoContext.recovery
  BY Sizes DEF NoContext, Context

(* A state without a process: what is on the disk is all there is.         *)
LEMMA AtRest ==
    ASSUME Release, HeaderOK(hdr'),
           IsClean(hdr') \/ hdr'.type # "none",
           oldkey' \in BOOLEAN,
           data' \in [Sector -> Content], synced' \in [Sector -> Content],
           area' \in Area, areasync' \in Area, world' \in Worlds,
           deaths' \in 0..world'.deaths, powers' \in 0..world'.powers,
           ioerrs' \in 0..world'.ioerrs, hasherrs' \in 0..world'.hasherrs,
           hasherrs' = 0 =>
             /\ \A i \in Sector : NotOldAt(hdr', area', i, data'[i])
             /\ ~oldkey' => \A i \in Sector : data'[i] # "old"
             /\ world'.volatile # {} /\ powers' = 0 =>
                    IsClean(hdr') /\ synced' = data',
           Handled' =>
             /\ \/ hdr' = Formatted /\ oldkey'
                \/ KeysOn(hdr') /\ oldkey' /\ ~AllNew(hdr')
                \/ ~hdr'.flag /\ AllNew(hdr')
             /\ Whole(hdr')
             /\ \A i \in Sector : DecodableAt(hdr', area', i, data'[i])
    PROVE  ReencryptInv'
  <1>1. /\ pc' = "idle" /\ rh' = NoContext /\ mem' = Formatted /\ stale' = FALSE
    BY DEF Release
  <1>2. rh' \in Context /\ ~rh'.recovery /\ "idle" \in Steps
    BY <1>1, NoContextOK DEF Steps
  <1>3. HeaderOK(mem') /\ mem' \in Header /\ hdr' \in Header
    BY <1>1, FormattedHeader DEF HeaderOK
  <1>4. TypeOK'
    BY <1>1, <1>2, <1>3 DEF TypeOK
  <1>5. Structure'
    <2>1. LoopPart' /\ StepPart' /\ RecoverPart' /\ TeardownPart' /\ EndPart'
      BY <1>1 DEF LoopPart, StepPart, RecoverPart, TeardownPart, EndPart,
                  Stepping, Ending
    <2>2. DiskPart'
      BY <1>1 DEF DiskPart, Named
    <2> QED BY <1>1, <1>3, <1>4, <2>1, <2>2 DEF Structure
  <1>6. hasherrs' = 0 => NotOld' /\ Volatile'
    BY <1>1, <1>2 DEF NotOld, Volatile
  <1>7. Handled' => Sound'
    BY <1>1 DEF Sound, KeysPart, WholePart, DataPart, OrderPart, Stepping
  <1> QED BY <1>5, <1>6, <1>7 DEF ReencryptInv

(* The initial state.                                                      *)
LEMMA InitInv == Init => ReencryptInv
  <1> SUFFICES ASSUME Init PROVE ReencryptInv
    OBVIOUS
  <1>1. /\ pc = "idle" /\ rh = NoContext /\ mem = Formatted /\ stale = FALSE
        /\ hdr = Formatted /\ oldkey = TRUE
        /\ data = [i \in Sector |-> "old"] /\ synced = data
        /\ area = Wiped /\ areasync = Wiped /\ world \in Worlds
        /\ deaths = 0 /\ powers = 0 /\ ioerrs = 0 /\ hasherrs = 0
    BY DEF Init
  <1>2. rh \in Context /\ ~rh.recovery /\ "idle" \in Steps
    BY <1>1, NoContextOK DEF Steps
  <1>3. Wiped \in Area
    <2>1. <<>> \in [1..0 -> Sector \X Content] /\ 0 \in 0..Zone
      BY Sizes
    <2> QED BY <2>1 DEF Wiped, Area
  <1>4. TypeOK
    <2>1. data \in [Sector -> Content]
      BY <1>1 DEF Content
    <2>2. /\ world.deaths \in Nat /\ world.powers \in Nat
          /\ world.ioerrs \in Nat /\ world.hasherrs \in Nat
      BY <1>1, ReencryptConstants
    <2>3. /\ deaths \in 0..world.deaths /\ powers \in 0..world.powers
          /\ ioerrs \in 0..world.ioerrs /\ hasherrs \in 0..world.hasherrs
      BY <1>1, <2>2
    <2>4. /\ hdr \in Header /\ mem \in Header /\ oldkey \in BOOLEAN /\ stale \in BOOLEAN
          /\ synced \in [Sector -> Content] /\ area \in Area /\ areasync \in Area
          /\ pc \in Steps
      BY <1>1, <1>2, <1>3, <2>1, FormattedHeader
    <2> QED BY <1>1, <1>2, <2>1, <2>3, <2>4 DEF TypeOK
  <1>5. Structure
    <2>1. LoopPart /\ StepPart /\ RecoverPart /\ TeardownPart /\ EndPart
      BY <1>1 DEF LoopPart, StepPart, RecoverPart, TeardownPart, EndPart,
                  Stepping, Ending
    <2>2. DiskPart
      BY <1>1, FormattedHeader DEF DiskPart, Named
    <2> QED BY <1>1, <1>4, <2>1, <2>2, FormattedHeader DEF Structure
  <1>6. HotSeg(hdr.segs) = 0 /\ \A i \in Sector : KeyOf(hdr.segs, i) = "old"
    <2>1. \A i \in Sector : ~Passed("forward", 0, i)
      BY Sizes DEF Passed, Sector
    <2> QED BY <2>1, <1>1, FormattedHeader, CleanSegments, Sizes DEF Direction
  <1>7. NotOld /\ Volatile
    BY <1>1, <1>2, <1>6, FormattedHeader DEF NotOld, Volatile, NotOldAt
  <1>8. Sound
    BY <1>1, <1>6 DEF Sound, KeysPart, WholePart, DataPart, OrderPart, Stepping,
                      Whole, DecodableAt
  <1> QED BY <1>5, <1>7, <1>8 DEF ReencryptInv

(* The header that the process would commit next.                          *)
LEMMA PendingOK ==
    ASSUME Structure, Committing
    PROVE  /\ HeaderOK(Pending) /\ Pending \in Header
           /\ IsClean(Pending) \/ Pending.type # "none"
           /\ pc = "hot" => Pending = mem
           /\ pc # "hot" => IsClean(Pending)
           /\ pc = "post" =>
                /\ rh.progress + rh.length \in 1..N
                /\ Pending = Assigned(mem, Clean(mem.direction, rh.progress + rh.length))
                /\ PostSegs(mem.direction, mem.segs)
                       = Clean(mem.direction, rh.progress + rh.length)
           /\ pc \notin {"hot", "post"} =>
                Pending.segs = mem.segs /\ Pending.direction = mem.direction
           /\ pc \in {"final", "teardown"} => Pending = mem
  <1>1. mem \in Header /\ HeaderOK(mem) /\ rh \in Context
    BY DEF Structure, TypeOK
  <1>2. CASE pc = "hot"
    <2>1. Pending = mem
      BY <1>2 DEF Pending
    <2>2. mem.type # "none"
      BY <1>2 DEF Structure, StepPart, Stepping
    <2> QED BY <1>1, <1>2, <2>1, <2>2
  <1>3. CASE pc = "post"
    <2>1. Pending = Assigned(mem, PostSegs(mem.direction, mem.segs))
      BY <1>3 DEF Pending
    <2>2. /\ mem.segs = Hot(mem.direction, rh.offset, rh.length)
          /\ Aligned(rh, mem.direction) /\ rh.progress < N
      BY <1>3 DEF Structure, StepPart, Stepping
    <2>3. /\ rh.offset \in Nat /\ rh.length \in Nat \ {0} /\ rh.offset + rh.length <= N
          /\ After(mem.direction, rh.offset, rh.length) = rh.progress + rh.length
          /\ rh.progress + rh.length \in 1..N
      BY <1>1, <2>2, Sizes DEF Aligned, Context, After
    <2>4. PostSegs(mem.direction, mem.segs)
              = Clean(mem.direction, rh.progress + rh.length)
      BY <1>1, <2>2, <2>3, HotHeader
    <2>5. rh.progress + rh.length \in 0..N
      BY <2>3
    <2> QED BY <1>1, <1>3, <2>1, <2>3, <2>4, <2>5, AssignedClean
  <1>4. CASE pc \in {"dropold", "dropreenc", "unflag"}
    <2>1. mem.segs = Clean(mem.direction, N)
      BY <1>4 DEF Structure, EndPart, Ending
    <2>2. \/ Pending = [mem EXCEPT !.oldslot = FALSE]
          \/ Pending = [mem EXCEPT !.reencslot = FALSE]
          \/ Pending = [mem EXCEPT !.flag = FALSE]
      BY <1>4 DEF Pending
    <2>3. Pending \in Header /\ Pending.segs = mem.segs /\ Pending.direction = mem.direction
      BY <1>1, <2>2 DEF Header
    <2>4. IsClean(Pending)
      BY <2>1, <2>3, Sizes DEF IsClean
    <2> QED BY <1>4, <2>3, <2>4 DEF HeaderOK
  <1>5. CASE pc \in {"final", "teardown"}
    <2>1. Pending = mem
      BY <1>5 DEF Pending
    <2>2. IsClean(mem)
      BY <1>5 DEF Structure, TeardownPart, EndPart
    <2> QED BY <1>1, <1>5, <2>1, <2>2
  <1> QED BY <1>2, <1>3, <1>4, <1>5 DEF Committing

(* What sector i may contain after a fault.                                *)
MayBe(i, c) ==
    \/ c = data[i]
    \/ /\ pc = "write" /\ InZone(rh, i)
       /\ \/ c = Reencrypted(data[i])
          \/ rh.type = "journal" /\ c = "junk"
    \/ /\ pc = "recover" /\ InZone(rh, i)
       /\ \/ c = RecoveredSector(rh.type, rh.offset, data, area, i)
          \/ rh.type = "journal" /\ c = "junk"
    \/ world.volatile # {} /\ powers = 0 /\ c = synced[i]

(* A fault, wherever it hits: the context is gone, the header on its way   *)
(* is written or not.                                                      *)
Stop ==
    /\ Release
    /\ stale \/ MayFail
    /\ \/ hdr' = hdr
       \/ Committing /\ hdr' = Pending
    /\ oldkey' = oldkey
    /\ data' \in [Sector -> Content] /\ synced' \in [Sector -> Content]
    /\ \A i \in Sector : MayBe(i, data'[i])
    /\ \/ area' = area
       \/ pc = "protect" /\ area' = Wiped /\ hdr' = hdr
    /\ areasync' \in Area
    /\ world' = world /\ hasherrs' = hasherrs
    /\ deaths' \in 0..world.deaths /\ powers' \in 0..world.powers
    /\ ioerrs' \in 0..world.ioerrs
    /\ world.volatile # {} /\ hasherrs = 0 => powers' # 0

LEMMA WipedOK == Wiped \in Area
  <1>1. <<>> \in [1..0 -> Sector \X Content] /\ 0 \in 0..Zone
    BY Sizes
  <1> QED BY <1>1 DEF Wiped, Area

(* A fault brings no sector back to the old key, except one not synced.    *)
LEMMA NeverBackToOld ==
    ASSUME NEW i \in Sector, NEW c, MayBe(i, c), c = "old", Volatile
    PROVE  \/ data[i] = "old"
           \/ pc = "sync" /\ NotOldAt(hdr, area, i, c)
  <1>1. CASE /\ pc = "write" /\ InZone(rh, i)
             /\ \/ c = Reencrypted(data[i])
                \/ rh.type = "journal" /\ c = "junk"
    BY <1>1 DEF Reencrypted
  <1>2. CASE /\ pc = "recover" /\ InZone(rh, i)
             /\ \/ c = RecoveredSector(rh.type, rh.offset, data, area, i)
                \/ rh.type = "journal" /\ c = "junk"
    BY <1>2 DEF RecoveredSector, Reencrypted
  <1>3. CASE world.volatile # {} /\ powers = 0 /\ c = synced[i]
    BY <1>3 DEF Volatile
  <1> QED BY <1>1, <1>2, <1>3 DEF MayBe

(* A clean header asks for nothing of the area.                            *)
LEMMA CleanNotOld ==
    ASSUME NEW h \in Header, IsClean(h), NEW a, NEW i \in Sector, NEW c,
           KeyOf(h.segs, i) = "new" => c # "old"
    PROVE  NotOldAt(h, a, i, c)
  BY CleanHeader DEF NotOldAt

LEMMA CleanDecodable ==
    ASSUME NEW h \in Header, IsClean(h), NEW a, NEW i \in Sector, NEW c,
           c = KeyOf(h.segs, i)
    PROVE  DecodableAt(h, a, i, c)
  BY CleanHeader DEF DecodableAt

(* The sectors after a hotzone: those passed before it and those in it.    *)
LEMMA ZonePassed ==
    ASSUME NEW d \in Direction, NEW r \in Context, Aligned(r, d), r.progress < N
    PROVE  /\ r.offset \in Nat /\ r.length \in Nat \ {0} /\ r.offset + r.length <= N
           /\ r.offset \in 0..N /\ r.length \in 1..Zone
           /\ Before(d, r.offset, r.length) = r.progress
           /\ After(d, r.offset, r.length) = r.progress + r.length
           /\ r.progress + r.length \in 0..N
           /\ \A i \in Sector :
                Passed(d, r.progress + r.length, i) <=> Passed(d, r.progress, i) \/ InZone(r, i)
           /\ \A i \in Sector : InZone(r, i) => ~Passed(d, r.progress, i)
  <1>1. /\ r.offset \in Nat /\ r.length \in Nat /\ r.progress \in Nat
        /\ r.length > 0 /\ r.length <= Zone /\ r.progress + r.length <= N
        /\ r.offset = IF d = "forward" THEN r.progress ELSE N - (r.progress + r.length)
    BY Sizes DEF Context, Aligned
  <1>2. /\ r.offset + r.length <= N
        /\ Before(d, r.offset, r.length) = r.progress
        /\ After(d, r.offset, r.length) = r.progress + r.length
    BY <1>1, Sizes DEF Before, After
  <1>3. ASSUME NEW i \in Sector
        PROVE  /\ Passed(d, r.progress + r.length, i)
                      <=> Passed(d, r.progress, i) \/ InZone(r, i)
               /\ InZone(r, i) => ~Passed(d, r.progress, i)
    <2>1. i \in Nat /\ i < N
      BY Sizes DEF Sector
    <2>2. CASE d = "forward"
      BY <2>1, <2>2, <1>1 DEF Passed, InZone
    <2>3. CASE d # "forward"
      BY <2>1, <2>3, <1>1, Sizes DEF Passed, InZone
    <2> QED BY <2>2, <2>3
  <1> QED BY <1>1, <1>2, <1>3, Sizes

(* The keys of the header in memory during a step.                         *)
LEMMA SteppingKeys ==
    ASSUME Structure, pc \in Stepping
    PROVE  /\ mem \in Header /\ rh \in Context /\ mem.direction \in Direction
           /\ Aligned(rh, mem.direction) /\ rh.progress < N
           /\ HotSeg(mem.segs) # 0 /\ HotStart(mem) = rh.offset
           /\ mem.segs[HotSeg(mem.segs)].size = rh.length
           /\ ~AllNew(mem) /\ ~IsClean(mem)
           /\ PostSegs(mem.direction, mem.segs)
                  = Clean(mem.direction, rh.progress + rh.length)
           /\ \A i \in Sector : KeyOf(mem.segs, i) = "hot" <=> InZone(rh, i)
           /\ \A i \in Sector : ~InZone(rh, i) =>
                 KeyOf(mem.segs, i) = IF Passed(mem.direction, rh.progress, i)
                                      THEN "new" ELSE "old"
           /\ \E i \in Sector : KeyOf(mem.segs, i) = "hot"
           /\ \A i \in Sector : KeyOf(mem.segs, i) \in {"new", "old", "hot"}
  <1>1. /\ mem \in Header /\ rh \in Context /\ rh.progress < N
        /\ Aligned(rh, mem.direction)
        /\ mem.segs = Hot(mem.direction, rh.offset, rh.length)
    BY DEF Structure, TypeOK, StepPart, Stepping
  <1>2. mem.direction \in Direction
    BY <1>1 DEF Header, Direction
  <1>3. /\ rh.offset \in Nat /\ rh.length \in Nat \ {0} /\ rh.offset + rh.length <= N
        /\ Before(mem.direction, rh.offset, rh.length) = rh.progress
        /\ After(mem.direction, rh.offset, rh.length) = rh.progress + rh.length
    BY <1>1, <1>2, ZonePassed
  <1>4. rh.offset \in Sector /\ InZone(rh, rh.offset)
    BY <1>3, Sizes DEF Sector, InZone
  <1>5. /\ HotSeg(mem.segs) # 0 /\ HotStart(mem) = rh.offset
        /\ mem.segs[HotSeg(mem.segs)].size = rh.length
        /\ ~AllNew(mem) /\ ~IsClean(mem)
        /\ PostSegs(mem.direction, mem.segs)
               = Clean(mem.direction, rh.progress + rh.length)
        /\ \A i \in Sector : KeyOf(mem.segs, i) = "hot" <=> InZone(rh, i)
        /\ \A i \in Sector : KeyOf(mem.segs, i) \in {"new", "old", "hot"}
        /\ \A i \in Sector : ~InZone(rh, i) =>
              KeyOf(mem.segs, i) = IF Passed(mem.direction, rh.progress, i)
                                   THEN "new" ELSE "old"
    BY <1>1, <1>3, HotHeader DEF InZone
  <1> QED BY <1>1, <1>2, <1>4, <1>5

(* A fault leaves no sector under the old key where it is not expected.    *)
LEMMA StopKeepsOld ==
    ASSUME Structure, NotOld, Volatile, hasherrs = 0, Stop
    PROVE  /\ \A i \in Sector : NotOldAt(hdr', area', i, data'[i])
           /\ ~oldkey' => \A i \in Sector : data'[i] # "old"
  <1>0. hdr \in Header /\ mem \in Header
    BY DEF Structure, TypeOK
  <1>1. ASSUME NEW i \in Sector
        PROVE  NotOldAt(hdr', area', i, data'[i])
    <2>1. CASE data'[i] # "old"
      BY <2>1 DEF NotOldAt
    <2>2. CASE data'[i] = "old"
      <3>1. \/ data[i] = "old"
            \/ pc = "sync" /\ NotOldAt(hdr, area, i, data'[i])
        BY <2>2, NeverBackToOld DEF Stop
      <3>2. NotOldAt(hdr, area, i, data'[i])
        BY <2>2, <3>1 DEF NotOld
      <3>3. CASE hdr' = hdr /\ area' = area
        BY <3>2, <3>3
      <3>4. CASE hdr' = hdr /\ pc = "protect"
        <4>1. IsClean(hdr)
          BY <3>4 DEF Structure, DiskPart, Named, StepPart, Stepping
        <4>2. KeyOf(hdr.segs, i) # "new"
          BY <3>2, <2>2 DEF NotOldAt
        <4> QED BY <4>1, <4>2, <3>4, <1>0, CleanNotOld
      <3>5. CASE Committing /\ hdr' = Pending /\ pc # "sync"
        <4>1. data[i] = "old"
          BY <3>1, <3>5
        <4>2. CASE pc = "hot"
          <5>1. area' = area /\ Pending = mem
            BY <4>2, <3>5, PendingOK DEF Stop
          <5> QED BY <5>1, <4>1, <4>2, <3>5, <2>2 DEF NotOld
        <4>3. CASE pc = "post"
          <5>1. /\ Pending = Assigned(mem, Clean(mem.direction, rh.progress + rh.length))
                /\ IsClean(Pending) /\ Pending \in Header
            BY <4>3, <3>5, PendingOK
          <5>2. /\ rh \in Context /\ mem.direction \in Direction
                /\ Aligned(rh, mem.direction) /\ rh.progress < N
                /\ \A j \in Sector : ~InZone(rh, j) =>
                      KeyOf(mem.segs, j) = IF Passed(mem.direction, rh.progress, j)
                                           THEN "new" ELSE "old"
            BY <4>3, SteppingKeys DEF Stepping
          <5>3. ~InZone(rh, i) /\ KeyOf(mem.segs, i) # "new"
            BY <4>1, <4>3 DEF NotOld
          <5>4. ~Passed(mem.direction, rh.progress + rh.length, i)
                /\ rh.progress + rh.length \in 0..N
            BY <5>2, <5>3, ZonePassed
          <5>5. Pending.segs = Clean(mem.direction, rh.progress + rh.length)
            BY <5>1, <1>0, <5>4, AssignedClean
          <5>6. KeyOf(Pending.segs, i) = "old"
            BY <5>2, <5>4, <5>5, CleanSegments
          <5> QED BY <5>1, <5>6, <3>5, CleanNotOld
        <4>4. CASE pc \notin {"hot", "post"}
          <5>1. /\ Pending.segs = mem.segs /\ IsClean(Pending) /\ Pending \in Header
                /\ pc # "idle"
            BY <4>4, <3>5, PendingOK DEF Committing
          <5>2. KeyOf(mem.segs, i) # "new"
            BY <4>1, <5>1 DEF NotOld
          <5> QED BY <5>1, <5>2, <3>5, CleanNotOld
        <4> QED BY <4>2, <4>3, <4>4
      <3> QED BY <3>3, <3>4, <3>5 DEF Stop, Committing
    <2> QED BY <2>1, <2>2
  <1>2. ASSUME ~oldkey', NEW i \in Sector
        PROVE  data'[i] # "old"
    <2>1. ~oldkey /\ pc # "sync"
      BY <1>2 DEF Stop, Structure, DiskPart, Ending
    <2>2. data[i] # "old"
      BY <2>1 DEF NotOld
    <2> QED BY <2>1, <2>2, NeverBackToOld DEF Stop
  <1> QED BY <1>1, <1>2

(* A recovery of a sector that can be recovered.                           *)
LEMMA RecoveredIsNew ==
    ASSUME NEW t \in {"checksum", "journal"}, NEW o, NEW d, NEW a, NEW i,
           Cell(a, t, o, i, "old"), d[i] \in Content,
           d[i] # "junk" \/ t = "journal"
    PROVE  RecoveredSector(t, o, d, a, i) = "new"
  BY DEF Cell, RecoveredSector, Reencrypted, Content

(* A fault leaves every sector decodable.                                  *)
LEMMA StopKeepsData ==
    ASSUME Structure, Sound, Volatile, Handled, Stop
    PROVE  \A i \in Sector : DecodableAt(hdr', area', i, data'[i])
  <1>0. hdr \in Header /\ mem \in Header /\ data \in [Sector -> Content]
    BY DEF Structure, TypeOK
  <1>1. MayFail /\ (pc = "idle" \/ rh.type # "none")
    BY DEF Stop, Sound, KeysPart, MayFail, Handled
  <1>2. \A i \in Sector : DecodableAt(hdr, area, i, data[i])
    BY <1>1 DEF Sound, DataPart
  <1> SUFFICES ASSUME NEW i \in Sector
               PROVE  DecodableAt(hdr', area', i, data'[i])
    OBVIOUS
  <1>3. DecodableAt(hdr, area, i, data[i])
    BY <1>2
  <1>4. MayBe(i, data'[i]) /\ data'[i] \in Content
    BY DEF Stop
  <1>5. CASE hdr' = hdr /\ pc = "write"
    <2>1. hdr = mem /\ area' = area /\ mem.type = rh.type
      BY <1>5, <1>1 DEF Structure, DiskPart, Named, StepPart, Stepping, Stop
    <2>2. CASE InZone(rh, i)
      <3>1. data[i] = "old" /\ KeyOf(hdr.segs, i) = "hot"
        BY <2>2, <2>1, <1>5, SteppingKeys DEF Sound, DataPart, Stepping
      <3>2. data'[i] # "junk" \/ rh.type = "journal"
        BY <1>4, <3>1, <1>5 DEF MayBe, Reencrypted, Volatile
      <3> QED BY <1>3, <3>1, <3>2, <2>1, <1>5 DEF DecodableAt
    <2>3. CASE ~InZone(rh, i)
      <3>1. data'[i] = data[i]
        BY <1>4, <2>3, <1>5 DEF MayBe, Volatile
      <3> QED BY <1>3, <3>1, <2>1, <1>5
    <2> QED BY <2>2, <2>3
  <1>6. CASE hdr' = hdr /\ pc = "recover"
    <2>1. /\ area' = area /\ rh.type = hdr.type
          /\ rh.length \in 1..Zone /\ rh.offset + rh.length <= N
          /\ hdr.segs = Hot(hdr.direction, rh.offset, rh.length)
          /\ rh.recovery /\ hdr.type # "none"
      BY <1>6 DEF Structure, RecoverPart, Stop
    <2>2. rh.offset \in Nat /\ rh.length \in Nat \ {0}
      BY <2>1, Sizes DEF Structure, TypeOK, Context
    <2>3. /\ HotStart(hdr) = rh.offset
          /\ KeyOf(hdr.segs, i) = "hot" <=> InZone(rh, i)
      BY <1>0, <2>1, <2>2, HotHeader DEF InZone
    <2>4. ~(world.volatile # {} /\ powers = 0)
      BY <2>1 DEF Volatile
    <2>5. CASE InZone(rh, i)
      <3>1. /\ Cell(area, hdr.type, rh.offset, i, "old")
            /\ data[i] # "junk" \/ hdr.type = "journal"
        BY <1>3, <2>3, <2>5 DEF DecodableAt
      <3>2. hdr.type \in {"checksum", "journal"} /\ data[i] \in Content
        BY <1>0, <2>1 DEF Header
      <3>3. RecoveredSector(rh.type, rh.offset, data, area, i) = "new"
        BY <3>1, <3>2, <2>1, RecoveredIsNew
      <3>4. data'[i] # "junk" \/ hdr.type = "journal"
        BY <1>4, <2>4, <3>1, <3>3, <2>1, <1>6 DEF MayBe
      <3> QED BY <3>1, <3>4, <2>1, <2>3, <2>5, <1>6 DEF DecodableAt
    <2>6. CASE ~InZone(rh, i)
      <3>1. data'[i] = data[i]
        BY <1>4, <2>4, <2>6, <1>6 DEF MayBe
      <3> QED BY <1>3, <3>1, <2>1, <1>6
    <2> QED BY <2>5, <2>6
  <1>7. CASE hdr' = hdr /\ pc = "sync"
    <2>1. hdr = mem /\ area' = area
      BY <1>7, <1>1 DEF Structure, DiskPart, Named, Stop
    <2>2. \/ data'[i] = data[i]
          \/ InZone(rh, i) /\ data'[i] = "old"
      BY <1>4, <1>7 DEF MayBe, Volatile
    <2>3. CASE data'[i] = data[i]
      BY <2>3, <1>3, <2>1, <1>7
    <2>4. CASE InZone(rh, i) /\ data'[i] = "old"
      <3>1. KeyOf(hdr.segs, i) = "hot"
        BY <2>4, <2>1, <1>7, SteppingKeys DEF Stepping
      <3> QED BY <1>3, <2>1, <2>4, <3>1, <1>7 DEF DecodableAt
    <2> QED BY <2>2, <2>3, <2>4
  <1>8. CASE pc \notin {"write", "recover", "sync"}
    <2>0. data'[i] = data[i]
      BY <1>4, <1>8 DEF MayBe, Volatile
    <2>1. CASE hdr' = hdr /\ area' = area
      BY <2>1, <2>0, <1>3
    <2>2. CASE hdr' = hdr /\ pc = "protect"
      <3>1. IsClean(hdr)
        BY <2>2 DEF Structure, DiskPart, Named, StepPart, Stepping
      <3>2. data[i] = KeyOf(hdr.segs, i)
        BY <3>1, <1>3, <1>0, CleanHeader DEF DecodableAt
      <3> QED BY <3>1, <3>2, <2>2, <2>0, <1>0, CleanDecodable
    <2>3. CASE Committing /\ hdr' = Pending
      <3>1. CASE pc = "hot"
        <4>1. area' = area /\ Pending = mem
          BY <2>3, <3>1, PendingOK DEF Stop
        <4> QED BY <4>1, <2>3, <3>1, <2>0 DEF Sound, DataPart
      <3>2. CASE pc = "post"
        <4>1. /\ Pending = Assigned(mem, Clean(mem.direction, rh.progress + rh.length))
              /\ IsClean(Pending) /\ Pending \in Header
          BY <2>3, <3>2, PendingOK
        <4>2. /\ rh \in Context /\ mem.direction \in Direction
              /\ Aligned(rh, mem.direction) /\ rh.progress < N
              /\ KeyOf(mem.segs, i) = "hot" <=> InZone(rh, i)
              /\ ~InZone(rh, i) =>
                    KeyOf(mem.segs, i) = IF Passed(mem.direction, rh.progress, i)
                                         THEN "new" ELSE "old"
          BY <3>2, SteppingKeys DEF Stepping
        <4>3. /\ InZone(rh, i) => data[i] = "new"
              /\ ~InZone(rh, i) => data[i] = KeyOf(mem.segs, i)
          BY <3>2, <4>2 DEF Sound, DataPart
        <4>4. /\ Passed(mem.direction, rh.progress + rh.length, i)
                   <=> Passed(mem.direction, rh.progress, i) \/ InZone(rh, i)
              /\ rh.progress + rh.length \in 0..N
          BY <4>2, ZonePassed
        <4>5. Pending.segs = Clean(mem.direction, rh.progress + rh.length)
          BY <4>1, <1>0, <4>4, AssignedClean
        <4>6. KeyOf(Pending.segs, i) = data[i]
          BY <4>2, <4>3, <4>4, <4>5, CleanSegments
        <4> QED BY <4>1, <4>6, <2>0, <2>3, CleanDecodable
      <3>3. CASE pc \notin {"hot", "post"}
        <4>1. /\ Pending.segs = mem.segs /\ IsClean(Pending) /\ Pending \in Header
              /\ pc # "idle"
          BY <3>3, <2>3, PendingOK DEF Committing
        <4>2. data[i] = KeyOf(Pending.segs, i)
          <5>1. KeyOf(Pending.segs, i) # "hot"
            BY <4>1, CleanHeader
          <5> QED BY <4>1, <5>1 DEF Sound, DataPart
        <4> QED BY <4>1, <4>2, <2>0, <2>3, CleanDecodable
      <3> QED BY <3>1, <3>2, <3>3
    <2> QED BY <2>1, <2>2, <2>3 DEF Stop
  <1> QED BY <1>5, <1>6, <1>7, <1>8 DEF Stop, Committing

(* An all new header is the one of the finish.                             *)
LEMMA AllNewSegs ==
    ASSUME NEW h \in Header
    PROVE  AllNew(h) <=> h.segs = <<[key |-> "new", size |-> N]>>
  <1>1. h.direction \in Direction
    BY DEF Header, Direction
  <1>2. Clean(h.direction, N) = <<[key |-> "new", size |-> N]>>
    BY <1>1, Sizes, CleanSegments
  <1> QED BY <1>2 DEF AllNew

(* While the header in memory is not all new, neither is that on disk.     *)
LEMMA NotYetNew ==
    ASSUME Structure, OrderPart, pc # "idle", ~AllNew(mem)
    PROVE  ~AllNew(hdr)
  <1>0. hdr \in Header /\ mem \in Header /\ HeaderOK(hdr) /\ HeaderOK(mem)
    BY DEF Structure, TypeOK
  <1>1. SUFFICES ASSUME AllNew(hdr) PROVE FALSE
    OBVIOUS
  <1>2. IsClean(hdr)
    BY <1>1, Sizes DEF AllNew, IsClean
  <1>3. \A i \in Sector : KeyOf(mem.segs, i) = "new"
    BY <1>0, <1>1, <1>2, CleanHeader DEF OrderPart
  <1>4. CASE IsClean(mem)
    BY <1>0, <1>3, <1>4, CleanHeader
  <1>5. CASE IsHot(mem)
    <2>1. PICK o \in 0..N, l \in 1..Zone :
             o + l <= N /\ mem.segs = Hot(mem.direction, o, l)
      BY <1>5 DEF IsHot
    <2>2. o \in Nat /\ l \in Nat \ {0} /\ o \in Sector /\ o <= o /\ o < o + l
      BY <2>1, Sizes DEF Sector
    <2>3. KeyOf(mem.segs, o) = "hot"
      BY <1>0, <2>1, <2>2, HotHeader
    <2> QED BY <2>2, <2>3, <1>3
  <1> QED BY <1>0, <1>4, <1>5 DEF HeaderOK

(* A fault leaves the keyslots that the header needs.                      *)
LEMMA StopKeepsKeys ==
    ASSUME Structure, Sound, Handled, Stop
    PROVE  /\ \/ hdr' = Formatted /\ oldkey'
              \/ KeysOn(hdr') /\ oldkey' /\ ~AllNew(hdr')
              \/ ~hdr'.flag /\ AllNew(hdr')
           /\ Whole(hdr')
  <1>0. hdr \in Header /\ mem \in Header /\ rh \in Context
    BY DEF Structure, TypeOK
  <1>1. /\ ~Finishing /\ ~LastIsShort
        /\ pc = "idle" \/ rh.type # "none"
    BY DEF Stop, Sound, KeysPart, MayFail, Handled
  <1>2. CASE pc = "idle"
    <2>1. hdr' = hdr /\ oldkey' = oldkey
      BY <1>2 DEF Stop, Committing
    <2> QED BY <1>2, <2>1 DEF Sound, KeysPart, WholePart
  <1>3. CASE pc # "idle"
    <2>1. pc \notin Ending
      BY <1>1, <1>0, AllNewSegs DEF Finishing, Structure, EndPart, Ending, AllNew
    <2>2. pc \in {"loop", "teardown", "final"} => ~AllNew(mem)
      BY <1>1, <1>0, AllNewSegs DEF Finishing
    <2>3. KeysOn(hdr) /\ KeysOn(mem) /\ oldkey
      BY <1>3, <2>1, <2>2 DEF Sound, KeysPart, Structure, TypeOK, Steps, Stepping, Ending
    <2>4. ~AllNew(hdr)
      <3>1. CASE pc = "recover"
        <4>1. /\ rh.length \in 1..Zone /\ rh.offset + rh.length <= N
              /\ hdr.segs = Hot(hdr.direction, rh.offset, rh.length)
          BY <3>1 DEF Structure, RecoverPart
        <4>2. rh.offset \in Nat /\ rh.length \in Nat \ {0}
          BY <4>1, <1>0, Sizes DEF Context
        <4> QED BY <1>0, <4>1, <4>2, HotHeader
      <3>2. CASE pc # "recover"
        <4>1. ~AllNew(mem)
          BY <1>3, <2>1, <2>2, <3>2, SteppingKeys DEF Structure, TypeOK, Steps, Stepping, Ending
        <4> QED BY <1>3, <4>1, NotYetNew DEF Sound
      <3> QED BY <3>1, <3>2
    <2>5. CASE hdr' = hdr
      <3>1. Whole(hdr)
        <4>1. CASE rh.recovery
          BY <4>1 DEF Sound, WholePart
        <4>2. CASE ~rh.recovery /\ ~Named
          <5>1. HotSeg(hdr.segs) = 0
            BY <1>0, <1>3, <4>2, CleanHeader DEF Structure, DiskPart
          <5> QED BY <5>1 DEF Whole
        <4>3. CASE Named
          <5>1. hdr = mem /\ pc \in Stepping
            BY <4>3 DEF Structure, DiskPart, Named, Stepping
          <5>2. /\ HotStart(mem) = rh.offset
                /\ mem.segs[HotSeg(mem.segs)].size = rh.length
                /\ Aligned(rh, mem.direction) /\ rh.progress < N
                /\ mem.direction \in Direction
                /\ PostSegs(mem.direction, mem.segs)
                       = Clean(mem.direction, rh.progress + rh.length)
            BY <5>1, SteppingKeys
          <5>3. CASE pc \in {"write", "sync"}
            <6>1. rh.length <= Zone /\ rh.length \in Nat
              BY <5>2, <1>0 DEF Aligned, Context
            <6>2. mem.direction = "backward" /\ rh.offset = 0 => rh.length = Zone
              BY <5>3, <6>1, <1>1, Sizes DEF LastIsShort
            <6> QED BY <5>1, <5>2, <6>2 DEF Whole
          <5>4. CASE pc = "post"
            <6>1. mem.direction = "backward" /\ rh.offset = 0 => rh.progress + rh.length = N
              BY <5>2, <1>0, Sizes DEF Aligned, Context
            <6>2. Len(Clean(mem.direction, N)) = 1
              BY <5>2, Sizes, CleanSegments
            <6>3. ~(mem.direction = "backward" /\ rh.offset = 0)
              BY <5>2, <5>4, <6>1, <6>2, <1>1 DEF Finishing
            <6> QED BY <5>1, <5>2, <6>3 DEF Whole
          <5> QED BY <4>3, <5>3, <5>4 DEF Named
        <4> QED BY <4>1, <4>2, <4>3
      <3> QED BY <2>3, <2>4, <2>5, <3>1 DEF Stop
    <2>6. CASE Committing /\ hdr' = Pending
      <3>1. CASE pc = "hot"
        <4>1. /\ HotStart(mem) = rh.offset
              /\ mem.segs[HotSeg(mem.segs)].size = rh.length
              /\ Aligned(rh, mem.direction) /\ ~AllNew(mem)
          BY <3>1, SteppingKeys DEF Stepping
        <4>2. rh.length <= Zone /\ rh.length \in Nat
          BY <4>1, <1>0 DEF Aligned, Context
        <4>3. mem.direction = "backward" /\ rh.offset = 0 => rh.length = Zone
          BY <3>1, <4>2, <1>1, Sizes DEF LastIsShort
        <4>4. Whole(mem)
          BY <4>1, <4>3 DEF Whole
        <4>5. Pending = mem
          BY <3>1, <2>6, PendingOK
        <4> QED BY <4>1, <4>4, <4>5, <2>3, <2>6 DEF Stop
      <3>2. CASE pc # "hot"
        <4>1. IsClean(Pending) /\ Pending \in Header
          BY <3>2, <2>6, PendingOK
        <4>2. Whole(Pending)
          BY <4>1, CleanHeader DEF Whole
        <4>3. KeysOn(Pending) /\ ~AllNew(Pending)
          <5>1. CASE pc = "post"
            <6>1. /\ rh.progress + rh.length \in 0..N
                  /\ Pending = Assigned(mem, Clean(mem.direction, rh.progress + rh.length))
                  /\ PostSegs(mem.direction, mem.segs)
                       = Clean(mem.direction, rh.progress + rh.length)
              BY <5>1, <2>6, PendingOK
            <6>2. /\ Pending.segs = Clean(mem.direction, rh.progress + rh.length)
                  /\ Pending.direction = mem.direction /\ KeysOn(Pending)
              BY <6>1, <1>0, <2>3, AssignedClean DEF KeysOn
            <6>3. mem.direction \in Direction
              BY <1>0 DEF Header, Direction
            <6>4. Len(Clean(mem.direction, N)) = 1
              BY <6>3, Sizes, CleanSegments
            <6>5. Pending.segs # Clean(mem.direction, N)
              BY <5>1, <6>1, <6>2, <6>4, <1>1 DEF Finishing
            <6> QED BY <6>2, <6>5 DEF AllNew
          <5>2. CASE pc \in {"teardown", "final"}
            <6>1. Pending = mem
              BY <5>2, <2>6, PendingOK
            <6> QED BY <6>1, <5>2, <2>2, <2>3
          <5> QED BY <5>1, <5>2, <3>2, <2>1, <2>6 DEF Committing, Ending
        <4> QED BY <4>2, <4>3, <2>3, <2>6 DEF Stop
      <3> QED BY <3>1, <3>2
    <2> QED BY <2>5, <2>6 DEF Stop
  <1> QED BY <1>2, <1>3

(* A fault keeps the invariant.                                            *)
LEMMA StopInv ==
    ASSUME ReencryptInv, Stop
    PROVE  ReencryptInv'
  <1>0. Structure /\ (hasherrs = 0 => NotOld /\ Volatile) /\ (Handled => Sound)
    BY DEF ReencryptInv
  <1>1. /\ HeaderOK(hdr') /\ (IsClean(hdr') \/ hdr'.type # "none")
    BY <1>0, PendingOK DEF Stop, Structure, DiskPart
  <1>2. /\ oldkey' \in BOOLEAN
        /\ data' \in [Sector -> Content] /\ synced' \in [Sector -> Content]
        /\ area' \in Area /\ areasync' \in Area /\ world' \in Worlds
        /\ deaths' \in 0..world'.deaths /\ powers' \in 0..world'.powers
        /\ ioerrs' \in 0..world'.ioerrs /\ hasherrs' \in 0..world'.hasherrs
    BY <1>0, WipedOK DEF Stop, Structure, TypeOK
  <1>3. ASSUME hasherrs' = 0
        PROVE  /\ \A i \in Sector : NotOldAt(hdr', area', i, data'[i])
               /\ ~oldkey' => \A i \in Sector : data'[i] # "old"
               /\ world'.volatile # {} /\ powers' = 0 =>
                      IsClean(hdr') /\ synced' = data'
    <2>1. hasherrs = 0 /\ ~(world'.volatile # {} /\ powers' = 0)
      BY <1>3 DEF Stop
    <2> QED BY <2>1, <1>0, StopKeepsOld
  <1>4. ASSUME Handled'
        PROVE  /\ \/ hdr' = Formatted /\ oldkey'
                  \/ KeysOn(hdr') /\ oldkey' /\ ~AllNew(hdr')
                  \/ ~hdr'.flag /\ AllNew(hdr')
               /\ Whole(hdr')
               /\ \A i \in Sector : DecodableAt(hdr', area', i, data'[i])
    <2>1. Handled /\ hasherrs = 0
      BY <1>4 DEF Stop, Handled
    <2> QED BY <2>1, <1>0, StopKeepsData, StopKeepsKeys
  <1> QED BY <1>1, <1>2, <1>3, <1>4, AtRest DEF Stop

-----------------------------------------------------------------------------
(* Every failure is such a stop                                            *)

(* The members of Worlds.                                                  *)
LEMMA WorldFacts ==
    ASSUME TypeOK
    PROVE  /\ world \in Worlds
           /\ world.deaths \in Nat /\ world.powers \in Nat
           /\ world.ioerrs \in Nat /\ world.hasherrs \in Nat
           /\ \A z \in world.limits : z \in 1..Zone
           /\ \A t \in world.types : t \in {"none", "checksum", "journal"}
           /\ \A d \in world.directions : d \in Direction
           /\ deaths \in Nat /\ powers \in Nat /\ ioerrs \in Nat /\ hasherrs \in Nat
  <1>1. world \in [limits : SUBSET (1..Zone),
          directions : SUBSET {"forward", "backward"},
          types : SUBSET {"none", "checksum", "journal"},
          volatile : SUBSET {"data", "area"},
          faultsat : SUBSET {"finish", "none", "last"},
          deaths : Nat, powers : Nat, ioerrs : Nat, hasherrs : Nat]
    BY ReencryptConstants DEF TypeOK
  <1> QED BY <1>1 DEF TypeOK, Direction

(* An I/O error that ends the process.                                     *)
LEMMA IOErrorStops ==
    ASSUME ReencryptInv, Foreseen, IOError, Release,
           hdr' = hdr \/ (Committing /\ hdr' = Pending),
           oldkey' = oldkey,
           data' \in [Sector -> Content], synced' = synced,
           \A i \in Sector : MayBe(i, data'[i]),
           area' = area \/ (pc = "protect" /\ area' = Wiped /\ hdr' = hdr),
           areasync' = areasync
    PROVE  ReencryptInv'
  <1>1. TypeOK
    BY DEF ReencryptInv, Structure
  <1>2. /\ ioerrs < world.ioerrs /\ MayFail /\ ioerrs' = ioerrs + 1
        /\ world' = world /\ deaths' = deaths /\ powers' = powers
        /\ hasherrs' = hasherrs
    BY DEF IOError
  <1>3. world.volatile = {}
    BY <1>1, <1>2, WorldFacts DEF Foreseen, Settled
  <1>4. ioerrs' \in 0..world.ioerrs
    BY <1>1, <1>2, WorldFacts
  <1>5. Stop
    BY <1>1, <1>2, <1>3, <1>4 DEF Stop, TypeOK
  <1> QED BY <1>5, StopInv

(* What a write that is cut short leaves.                                  *)
LEMMA SectorStays ==
    ASSUME NEW i \in Sector
    PROVE  MayBe(i, data[i])
  BY DEF MayBe

LEMMA CutShortWrite ==
    ASSUME TypeOK, pc = "write",
           NEW d \in CutShort(rh.type, HotZone(rh), Written)
    PROVE  d \in [Sector -> Content] /\ \A i \in Sector : MayBe(i, d[i])
  <1>1. ASSUME NEW i \in Sector
        PROVE  MayBe(i, d[i])
    <2>1. \/ d[i] = data[i]
          \/ i \in HotZone(rh) /\ d[i] = Written[i]
          \/ i \in HotZone(rh) /\ rh.type = "journal" /\ d[i] = "junk"
      BY DEF CutShort
    <2>2. i \in HotZone(rh) => InZone(rh, i) /\ Written[i] = Reencrypted(data[i])
      BY DEF HotZone, InZone, Written
    <2>3. CASE d[i] = data[i]
      BY <2>3 DEF MayBe
    <2>4. CASE i \in HotZone(rh) /\ d[i] = Written[i]
      BY <2>2, <2>4 DEF MayBe
    <2>5. CASE i \in HotZone(rh) /\ rh.type = "journal" /\ d[i] = "junk"
      BY <2>2, <2>5 DEF MayBe
    <2> QED BY <2>1, <2>3, <2>4, <2>5
  <1> QED BY <1>1 DEF CutShort

LEMMA CutShortRecover ==
    ASSUME TypeOK, pc = "recover",
           NEW d \in CutShort(rh.type, HotZone(rh), Recovered)
    PROVE  d \in [Sector -> Content] /\ \A i \in Sector : MayBe(i, d[i])
  <1>1. ASSUME NEW i \in Sector
        PROVE  MayBe(i, d[i])
    <2>1. \/ d[i] = data[i]
          \/ i \in HotZone(rh) /\ d[i] = Recovered[i]
          \/ i \in HotZone(rh) /\ rh.type = "journal" /\ d[i] = "junk"
      BY DEF CutShort
    <2>2. i \in HotZone(rh) => InZone(rh, i) /\ Recovered[i] = RecoveredSector(rh.type, rh.offset, data, area, i)
      BY DEF HotZone, InZone, Recovered
    <2> QED BY <2>1, <2>2 DEF MayBe
  <1> QED BY <1>1 DEF CutShort

LEMMA DataNowMayBe ==
    ASSUME TypeOK, NEW d \in DataNow
    PROVE  d \in [Sector -> Content] /\ \A i \in Sector : MayBe(i, d[i])
  <1>1. CASE pc = "write"
    BY <1>1, CutShortWrite DEF DataNow
  <1>2. CASE pc = "recover"
    BY <1>2, CutShortRecover DEF DataNow
  <1>3. CASE pc # "write" /\ pc # "recover"
    BY <1>3, SectorStays DEF DataNow, TypeOK
  <1> QED BY <1>1, <1>2, <1>3

(* A killed process and a power failure.                                   *)
LEMMA DieInv ==
    ASSUME ReencryptInv, Foreseen, Die
    PROVE  ReencryptInv'
  <1>1. TypeOK
    BY DEF ReencryptInv, Structure
  <1>2. /\ MayFail /\ deaths < world.deaths /\ deaths' = deaths + 1
        /\ data' \in DataNow /\ Release
        /\ UNCHANGED <<hdr, oldkey, synced, area, areasync, world, powers, ioerrs, hasherrs>>
    BY DEF Die
  <1>3. world.volatile = {}
    BY <1>1, <1>2, WorldFacts DEF Foreseen, Settled
  <1>4. deaths' \in 0..world.deaths
    BY <1>1, <1>2, WorldFacts
  <1>5. data' \in [Sector -> Content] /\ \A i \in Sector : MayBe(i, data'[i])
    BY <1>1, <1>2, DataNowMayBe
  <1>6. Stop
    BY <1>1, <1>2, <1>3, <1>4, <1>5 DEF Stop, TypeOK
  <1> QED BY <1>6, StopInv

LEMMA PowerFailureInv ==
    ASSUME ReencryptInv, Foreseen, PowerFailure
    PROVE  ReencryptInv'
  <1>1. TypeOK
    BY DEF ReencryptInv, Structure
  <1>2. /\ MayFail /\ powers < world.powers /\ powers' = powers + 1
        /\ hdr' = hdr \/ (Committing /\ hdr' = Pending)
        /\ Release /\ synced' = data' /\ areasync' = area'
        /\ UNCHANGED <<oldkey, world, deaths, ioerrs, hasherrs>>
    BY DEF PowerFailure
  <1>3. Settled(world)
    BY <1>1, WorldFacts DEF Foreseen
  <1>4. area' = area
    BY <1>3 DEF PowerFailure, Settled
  <1>5. world.volatile # {} => powers = 0
    BY <1>1, <1>2, <1>3, WorldFacts DEF Settled
  <1>6. PICK e \in DataNow :
           /\ data' \in [Sector -> Content]
           /\ \A i \in Sector : \/ data'[i] = e[i]
                                \/ "data" \in world.volatile /\ data'[i] = synced[i]
    BY DEF PowerFailure
  <1>7. \A i \in Sector : MayBe(i, e[i])
    BY <1>1, DataNowMayBe
  <1>8. \A i \in Sector : MayBe(i, data'[i])
    <2> SUFFICES ASSUME NEW i \in Sector PROVE MayBe(i, data'[i])
      OBVIOUS
    <2>1. CASE data'[i] = e[i]
      BY <2>1, <1>7
    <2>2. CASE "data" \in world.volatile /\ data'[i] = synced[i]
      BY <2>2, <1>5 DEF MayBe
    <2> QED BY <1>6, <2>1, <2>2
  <1>9. powers' \in 0..world.powers /\ powers' # 0
    BY <1>1, <1>2, WorldFacts
  <1>10. Stop
    BY <1>1, <1>2, <1>4, <1>6, <1>8, <1>9 DEF Stop, TypeOK
  <1> QED BY <1>10, StopInv

-----------------------------------------------------------------------------
(* Starting                                                                *)

(* The start of a run.                                                     *)
LEMMA InitReencryptInv ==
    ASSUME ReencryptInv, Foreseen, NEW d \in world.directions, InitReencrypt(d)
    PROVE  ReencryptInv'
  <1>0. Structure /\ (hasherrs = 0 => NotOld /\ Volatile) /\ (Handled => Sound)
    BY DEF ReencryptInv
  <1>1. /\ pc = "idle" /\ hdr = Formatted
        /\ hdr' = [Formatted EXCEPT !.flag = TRUE, !.direction = d, !.reencslot = TRUE]
        /\ UNCHANGED <<oldkey, data, synced, area, areasync, pc, mem, rh, stale,
                       world, deaths, powers, ioerrs, hasherrs>>
    BY DEF InitReencrypt, faults
  <1>2. Release /\ TypeOK
    BY <1>0, <1>1 DEF Release, Structure
  <1>3. d \in Direction
    BY <1>2, WorldFacts
  <1>4. hdr' \in Header /\ hdr'.segs = hdr.segs /\ hdr'.direction = d /\ KeysOn(hdr')
    <2>1. Formatted.segs \in UNION {[1..k -> Segment] : k \in 1..3}
      BY FormattedHeader DEF Header
    <2> QED BY <1>1, <1>3, <2>1 DEF Formatted, Header, KeysOn, Direction
  <1>5. hdr.segs = Clean(d, 0)
    <2>1. Clean(d, 0) = <<[key |-> "old", size |-> N]>>
      BY <1>3, Sizes, CleanSegments
    <2> QED BY <2>1, <1>1 DEF Formatted
  <1>6. IsClean(hdr') /\ HeaderOK(hdr')
    BY <1>4, <1>5, Sizes DEF IsClean, HeaderOK
  <1>7. IsClean(hdr) /\ hdr \in Header
    BY <1>1, FormattedHeader
  <1>8. ~AllNew(hdr') /\ ~AllNew(hdr)
    <2>1. Clean(d, 0) # <<[key |-> "new", size |-> N]>>
      BY <1>3, Sizes, CleanSegments
    <2> QED BY <2>1, <1>4, <1>5, <1>7, AllNewSegs
  <1>9. ASSUME hasherrs' = 0
        PROVE  /\ \A i \in Sector : NotOldAt(hdr', area', i, data'[i])
               /\ ~oldkey' => \A i \in Sector : data'[i] # "old"
               /\ world'.volatile # {} /\ powers' = 0 =>
                      IsClean(hdr') /\ synced' = data'
    <2>1. NotOld /\ Volatile
      BY <1>9, <1>0, <1>1
    <2>2. ASSUME NEW i \in Sector PROVE NotOldAt(hdr', area', i, data'[i])
      <3>1. KeyOf(hdr'.segs, i) = "new" => data'[i] # "old"
        BY <2>1, <1>1, <1>4 DEF NotOld, NotOldAt
      <3> QED BY <3>1, <1>4, <1>6, CleanNotOld
    <2> QED BY <2>1, <2>2, <1>1, <1>6 DEF NotOld, Volatile
  <1>10. ASSUME Handled'
         PROVE  /\ KeysOn(hdr') /\ oldkey' /\ ~AllNew(hdr')
                /\ Whole(hdr')
                /\ \A i \in Sector : DecodableAt(hdr', area', i, data'[i])
    <2>1. Sound
      BY <1>10, <1>0, <1>1 DEF Handled
    <2>2. oldkey
      BY <2>1, <1>1, <1>8 DEF Sound, KeysPart
    <2>3. ASSUME NEW i \in Sector PROVE DecodableAt(hdr', area', i, data'[i])
      <3>1. DecodableAt(hdr, area, i, data[i])
        BY <2>1, <1>1 DEF Sound, DataPart
      <3>2. data'[i] = KeyOf(hdr'.segs, i)
        BY <3>1, <1>1, <1>4, <1>7, CleanHeader DEF DecodableAt
      <3> QED BY <3>2, <1>4, <1>6, CleanDecodable
    <2>4. Whole(hdr')
      BY <1>4, <1>6, CleanHeader DEF Whole
    <2> QED BY <2>2, <2>3, <2>4, <1>1, <1>4, <1>8
  <1> QED BY <1>1, <1>2, <1>6, <1>9, <1>10, AtRest DEF TypeOK

(* The context of a run from a clean header: the sectors passed so far, or *)
(* none if there are no others.                                            *)
LEMMA CleanContext ==
    ASSUME NEW h \in Header, NEW b \in 0..N, h.segs = Clean(h.direction, b),
           NEW t \in {"none", "checksum", "journal"}, NEW z \in 1..Zone
    PROVE  LET r == ContextOf(h, t, z)
           IN  /\ r \in Context /\ ~r.recovery /\ r.read = 0 /\ r.type = t
               /\ r.progress = IF b = N THEN 0 ELSE b
               /\ r.progress < N
               /\ Aligned(r, h.direction)
  <1> DEFINE r == ContextOf(h, t, z)
             p == IF b = N THEN 0 ELSE b
             w == IF h.direction = "backward" THEN Least(z, N - p) ELSE z
             o == IF h.direction = "backward" THEN N - p - w ELSE p
             l == Least(w, N - o)
  <1>1. h.direction \in Direction
    BY DEF Header, Direction
  <1>2. p \in Nat /\ p < N /\ b \in Nat
    BY Sizes
  <1>3. HotSeg(h.segs) = 0
    BY <1>1, CleanSegments
  <1>4. /\ h.direction = "backward" => Remaining(h) = N - p
        /\ h.direction = "forward" => (IF Len(h.segs) = 1 THEN 0 ELSE Remaining(h)) = p
    <2>1. CASE b \in {0, N}
      <3>1. Len(h.segs) = 1
        BY <2>1, <1>1, CleanSegments
      <3>2. p = 0
        BY <2>1
      <3> QED BY <3>1, <3>2, Sizes DEF Remaining
    <2>2. CASE b \notin {0, N}
      <3>1. /\ Len(h.segs) = 2
            /\ h.segs[1].size = IF h.direction = "forward" THEN b ELSE N - b
        BY <2>2, <1>1, CleanSegments
      <3> QED BY <3>1, <2>2 DEF Remaining
    <2> QED BY <2>1, <2>2
  <1>5. r = [offset |-> o, length |-> l,
             progress |-> IF h.direction = "backward" THEN N - (o + l) ELSE o,
             read |-> 0, type |-> t, recovery |-> FALSE]
    <2> DEFINE k == HotSeg(h.segs)
               f == IF k = 0 /\ h.direction = "backward"
                    THEN Least(z, Remaining(h)) ELSE z
               e == IF k > 0 THEN SegStart(h.segs, k)
                    ELSE IF h.direction = "backward" THEN Remaining(h) - f
                         ELSE IF Len(h.segs) = 1 THEN 0 ELSE Remaining(h)
    <2>1. r = [offset |-> e, length |-> Least(f, N - e),
               progress |-> IF h.direction = "backward"
                            THEN N - (e + Least(f, N - e)) ELSE e,
               read |-> 0, type |-> t, recovery |-> FALSE]
      BY DEF ContextOf
    <2>2. f = w
      BY <1>3, <1>4
    <2>3. ~(k > 0)
      BY <1>3
    <2>4. CASE h.direction = "backward"
      <3>1. e = Remaining(h) - f
        BY <2>3, <2>4
      <3>2. e = o
        BY <3>1, <2>2, <2>4, <1>4
      <3> HIDE DEF f, e, w, o, r
      <3> QED BY <2>1, <2>2, <3>2
    <2>5. CASE h.direction = "forward"
      <3>1. e = IF Len(h.segs) = 1 THEN 0 ELSE Remaining(h)
        BY <2>3, <2>5
      <3>2. o = p
        BY <2>5
      <3>3. e = o
        BY <3>1, <3>2, <2>5, <1>4
      <3> HIDE DEF f, e, w, o, r
      <3> QED BY <2>1, <2>2, <3>3
    <2> QED BY <2>4, <2>5, <1>1 DEF Direction
  <1>6. z \in Nat /\ z > 0 /\ z <= Zone
    BY Sizes
  <1>7. w \in Nat /\ w > 0 /\ w <= Zone /\ (h.direction = "backward" => w <= N - p)
    BY <1>2, <1>6, Sizes DEF Least
  <1>8. /\ o \in Nat /\ o < N /\ l \in Nat /\ l > 0 /\ l <= Zone /\ o + l <= N
        /\ h.direction = "backward" => l = w
        /\ h.direction # "backward" => o = p
    <2>1. CASE h.direction = "backward"
      <3>1. o \in Nat /\ o < N /\ N - o = p + w
        BY <2>1, <1>2, <1>7, Sizes
      <3> QED BY <2>1, <3>1, <1>2, <1>7, Sizes DEF Least
    <2>2. CASE h.direction # "backward"
      BY <2>2, <1>2, <1>7, Sizes DEF Least
    <2> QED BY <2>1, <2>2
  <1>9. (IF h.direction = "backward" THEN N - (o + l) ELSE o) = p
    <2>1. CASE h.direction = "backward"
      <3>1. o = N - p - w /\ l = w
        BY <2>1, <1>8
      <3> HIDE DEF o, l, w, p
      <3> QED BY <2>1, <3>1, <1>2, <1>7, Sizes
    <2>2. CASE h.direction # "backward"
      BY <2>2, <1>8
    <2> QED BY <2>1, <2>2
  <1>10. r.offset = o /\ r.length = l /\ r.progress = p
    BY <1>5, <1>9
  <1>11. h.direction = "backward" => o = N - (p + l)
    <2>1. h.direction = "backward" => o = N - p - w /\ l = w
      BY <1>8
    <2> HIDE DEF o, l, w, p
    <2> QED BY <2>1, <1>2, <1>7, Sizes
  <1>12. Aligned(r, h.direction) /\ r.progress < N
    <2>1. p + l <= N
      <3> HIDE DEF o, l, w, p
      <3>1. CASE h.direction = "backward"
        BY <3>1, <1>11, <1>8, <1>2, Sizes
      <3>2. CASE h.direction # "backward"
        BY <3>2, <1>8
      <3> QED BY <3>1, <3>2
    <2>2. h.direction = "forward" => o = p
      BY <1>8
    <2> HIDE DEF o, l, w, p, r
    <2> QED BY <2>1, <2>2, <1>1, <1>2, <1>8, <1>10, <1>11 DEF Aligned, Direction
  <1>13. r \in Context
    <2> HIDE DEF o, l, w, p
    <2>1. o \in 0..N /\ l \in 0..N /\ p \in 0..(2 * N) /\ 0 \in 0..N
      BY <1>2, <1>8, Sizes
    <2> QED BY <2>1, <1>5, <1>9 DEF Context
  <1> QED BY <1>5, <1>10, <1>12, <1>13

LEMMA LoadReencryptInv ==
    ASSUME ReencryptInv, Foreseen, NEW t \in world.types, NEW z \in world.limits,
           LoadReencrypt(t, z)
    PROVE  ReencryptInv'
  <1>0. Structure /\ (hasherrs = 0 => NotOld /\ Volatile) /\ (Handled => Sound)
    BY DEF ReencryptInv
  <1>1. /\ pc = "idle" /\ hdr.flag /\ HotSeg(hdr.segs) = 0 /\ oldkey
        /\ hdr.reencslot /\ hdr.oldslot
        /\ mem' = hdr /\ rh' = ContextOf(hdr, t, z) /\ pc' = "loop"
        /\ UNCHANGED <<hdr, oldkey, data, synced, area, areasync, stale,
                       world, deaths, powers, ioerrs, hasherrs>>
    BY DEF LoadReencrypt, Status, Unlockable, faults
  <1>2. TypeOK /\ hdr \in Header /\ HeaderOK(hdr) /\ stale = FALSE
    BY <1>0, <1>1 DEF Structure, TypeOK
  <1>3. IsClean(hdr)
    <2>1. ~IsHot(hdr)
      <3> SUFFICES ASSUME NEW o \in 0..N, NEW l \in 1..Zone, o + l <= N,
                          hdr.segs = Hot(hdr.direction, o, l)
                   PROVE  FALSE
        BY DEF IsHot
      <3>1. o \in Nat /\ l \in Nat \ {0}
        BY Sizes
      <3> QED BY <3>1, <1>1, <1>2, HotHeader
    <2> QED BY <2>1, <1>2 DEF HeaderOK
  <1>4. PICK b \in 0..N : hdr.segs = Clean(hdr.direction, b)
    BY <1>3 DEF IsClean
  <1>5. t \in {"none", "checksum", "journal"} /\ z \in 1..Zone
    BY <1>2, WorldFacts
  <1>6. /\ rh' \in Context /\ ~rh'.recovery /\ rh'.read = 0 /\ rh'.type = t
        /\ rh'.progress = IF b = N THEN 0 ELSE b
        /\ rh'.progress < N
        /\ Aligned(rh', hdr.direction)
    BY <1>1, <1>2, <1>4, <1>5, CleanContext
  <1>7. Structure'
    <2>1. TypeOK'
      BY <1>1, <1>2, <1>6 DEF TypeOK, Steps
    <2>2. LoopPart' /\ StepPart' /\ RecoverPart' /\ TeardownPart' /\ EndPart'
      BY <1>1, <1>2, <1>4, <1>6 DEF LoopPart, StepPart, RecoverPart, TeardownPart,
                              EndPart, Stepping, Ending
    <2>3. DiskPart'
      BY <1>0, <1>1, <1>2, <1>3 DEF Structure, DiskPart, Named
    <2> QED BY <1>1, <1>2, <1>6, <2>1, <2>2, <2>3 DEF Structure
  <1>8. ASSUME hasherrs' = 0 PROVE NotOld' /\ Volatile'
    <2>1. NotOld /\ Volatile
      BY <1>8, <1>0, <1>1
    <2>2. NotOld'
      BY <2>1, <1>1 DEF NotOld, NotOldAt
    <2>3. world.volatile # {} => t # "none"
      BY <1>2 DEF Foreseen, Settled, TypeOK
    <2> QED BY <2>1, <2>2, <2>3, <1>1, <1>6 DEF Volatile
  <1>9. ASSUME Handled' PROVE Sound'
    <2>1. Sound /\ Handled
      BY <1>9, <1>0, <1>1 DEF Handled
    <2>2. ~AllNew(hdr)
      BY <2>1, <1>1, FormattedHeader DEF Sound, KeysPart
    <2>3. b # N
      BY <2>2, <1>4 DEF AllNew
    <2>4. KeysPart'
      BY <1>1, <1>2, <1>4, <1>6, <2>3 DEF KeysPart, KeysOn, Stepping
    <2>5. WholePart'
      BY <1>1, <1>6 DEF WholePart
    <2>6. \A i \in Sector : DecodableAt(hdr, area, i, data[i])
      BY <2>1, <1>1 DEF Sound, DataPart
    <2>7. DataPart'
      BY <1>1, <2>6 DEF DataPart, DecodableAt
    <2> QED BY <2>4, <2>5, <2>7, <1>1 DEF Sound, OrderPart
  <1> QED BY <1>7, <1>8, <1>9 DEF ReencryptInv

-----------------------------------------------------------------------------
(* The steps                                                               *)

(* In the loop the header in memory has the sectors passed so far.         *)
LEMMA LoopKeys ==
    ASSUME Structure, pc = "loop"
    PROVE  /\ mem \in Header /\ rh \in Context /\ mem.direction \in Direction
           /\ Aligned(rh, mem.direction) /\ rh.progress \in 0..N
           /\ IsClean(mem)
           /\ ~rh.recovery /\ ~stale /\ IsClean(hdr)
           /\ \A i \in Sector :
                Passed(mem.direction, rh.progress, i) => KeyOf(mem.segs, i) = "new"
           /\ mem.segs = Clean(mem.direction, rh.progress) =>
                \A i \in Sector :
                   KeyOf(mem.segs, i) = IF Passed(mem.direction, rh.progress, i)
                                        THEN "new" ELSE "old"
  <1>1. /\ mem \in Header /\ rh \in Context /\ ~rh.recovery /\ ~stale
        /\ Aligned(rh, mem.direction) /\ IsClean(hdr)
        /\ \/ mem.segs = Clean(mem.direction, rh.progress)
           \/ mem.segs = Clean(mem.direction, N) /\ rh.progress = 0
    BY DEF Structure, TypeOK, LoopPart, DiskPart, Named
  <1>2. mem.direction \in Direction
    BY <1>1 DEF Header, Direction
  <1>3. rh.progress \in 0..N
    BY <1>1, Sizes DEF Context, Aligned
  <1>4. mem.segs = Clean(mem.direction, rh.progress) =>
          \A i \in Sector :
             KeyOf(mem.segs, i) = IF Passed(mem.direction, rh.progress, i)
                                  THEN "new" ELSE "old"
    BY <1>2, <1>3, CleanSegments
  <1>5. rh.progress = 0 => \A i \in Sector : ~Passed(mem.direction, rh.progress, i)
    BY Sizes DEF Passed, Sector
  <1>6. IsClean(mem)
    BY <1>1, <1>3, Sizes DEF IsClean
  <1> QED BY <1>1, <1>2, <1>3, <1>4, <1>5, <1>6

LEMMA StepBeginInv ==
    ASSUME ReencryptInv, StepBegin
    PROVE  ReencryptInv'
  <1>0. Structure /\ (hasherrs = 0 => NotOld /\ Volatile) /\ (Handled => Sound)
    BY DEF ReencryptInv
  <1>1. /\ pc = "loop" /\ rh.progress < N
        /\ mem' = Assigned(Protected(mem, rh.type), HotSegs(mem.direction, rh))
        /\ pc' = "read"
        /\ UNCHANGED <<hdr, oldkey, data, synced, area, areasync, rh, stale,
                       world, deaths, powers, ioerrs, hasherrs>>
    BY DEF StepBegin, faults
  <1>2. /\ mem \in Header /\ rh \in Context /\ mem.direction \in Direction
        /\ Aligned(rh, mem.direction) /\ ~rh.recovery /\ ~stale /\ IsClean(hdr)
        /\ \A i \in Sector :
             Passed(mem.direction, rh.progress, i) => KeyOf(mem.segs, i) = "new"
    BY <1>0, <1>1, LoopKeys
  <1>3. /\ rh.offset \in Nat /\ rh.length \in Nat \ {0} /\ rh.offset + rh.length <= N
        /\ rh.length \in 1..Zone
        /\ \A i \in Sector : InZone(rh, i) => ~Passed(mem.direction, rh.progress, i)
    BY <1>1, <1>2, ZonePassed
  <1>4. HotSegs(mem.direction, rh) = Hot(mem.direction, rh.offset, rh.length)
    BY DEF Hot, HotSegs
  <1>5. /\ mem' \in Header /\ HeaderOK(mem')
        /\ mem'.direction = mem.direction /\ mem'.type = rh.type
        /\ mem'.segs = Hot(mem.direction, rh.offset, rh.length)
        /\ mem'.flag = mem.flag /\ mem'.reencslot = mem.reencslot
        /\ mem'.oldslot = mem.oldslot
    <2>1. rh.type \in {"none", "checksum", "journal"}
      BY <1>2 DEF Context
    <2> QED BY <2>1, <1>1, <1>2, <1>3, <1>4, AssignedHot
  <1>6. Structure'
    <2>1. TypeOK'
      BY <1>0, <1>1, <1>5 DEF Structure, TypeOK, Steps
    <2>2. LoopPart' /\ StepPart' /\ RecoverPart' /\ TeardownPart' /\ EndPart'
      BY <1>1, <1>2, <1>5 DEF LoopPart, StepPart, RecoverPart, TeardownPart,
                              EndPart, Stepping, Ending
    <2>3. DiskPart'
      BY <1>0, <1>1, <1>2 DEF Structure, DiskPart, Named, Ending
    <2>4. HeaderOK(hdr') /\ Aligned(rh', mem'.direction)
      BY <1>0, <1>1, <1>2, <1>5 DEF Structure
    <2> QED BY <1>1, <1>5, <2>1, <2>2, <2>3, <2>4 DEF Structure
  <1>7. /\ \A i \in Sector : KeyOf(mem'.segs, i) = "hot" <=> InZone(rh, i)
        /\ \A i \in Sector : ~InZone(rh, i) =>
              KeyOf(mem'.segs, i) = IF Passed(mem.direction, rh.progress, i)
                                    THEN "new" ELSE "old"
    <2>1. Before(mem.direction, rh.offset, rh.length) = rh.progress
      BY <1>1, <1>2, ZonePassed
    <2> QED BY <1>5, <1>3, <2>1, HotHeader DEF InZone
  <1>8. ASSUME hasherrs' = 0 PROVE NotOld' /\ Volatile'
    <2>1. NotOld /\ Volatile
      BY <1>8, <1>0, <1>1
    <2>2. \A i \in Sector : KeyOf(mem'.segs, i) = "new" => data[i] # "old"
      BY <1>1, <1>2, <1>7, <2>1 DEF NotOld
    <2>3. NotOld'
      BY <2>1, <2>2, <1>1 DEF NotOld, NotOldAt
    <2> QED BY <2>1, <2>3, <1>1 DEF Volatile
  <1>9. ASSUME Handled' PROVE Sound'
    <2>1. Sound
      BY <1>9, <1>0, <1>1 DEF Handled
    <2>2. \A i \in Sector :
             data[i] = IF Passed(mem.direction, rh.progress, i) THEN "new" ELSE "old"
      <3>1. mem.segs = Clean(mem.direction, rh.progress)
        BY <2>1, <1>1 DEF Sound, KeysPart
      <3>2. \A i \in Sector :
              KeyOf(mem.segs, i) = IF Passed(mem.direction, rh.progress, i)
                                   THEN "new" ELSE "old"
        BY <3>1, <1>0, <1>1, LoopKeys
      <3> QED BY <3>2, <2>1, <1>1 DEF Sound, DataPart
    <2>3. KeysPart'
      BY <2>1, <1>1, <1>5 DEF Sound, KeysPart, KeysOn, Stepping
    <2>4. WholePart'
      BY <1>1, <1>2 DEF WholePart
    <2>5. DataPart'
      <3>1. \A i \in Sector : InZone(rh, i) => data[i] = "old"
        BY <2>2, <1>3
      <3>2. \A i \in Sector : KeyOf(mem'.segs, i) # "hot" => data[i] = KeyOf(mem'.segs, i)
        BY <2>2, <1>7
      <3>3. rh.type # "none" => \A i \in Sector : DecodableAt(hdr, area, i, data[i])
        BY <2>1, <1>1 DEF Sound, DataPart
      <3> QED BY <3>1, <3>2, <3>3, <1>1 DEF DataPart
    <2>6. OrderPart'
      <3>1. ASSUME NEW i \in Sector, KeyOf(hdr.segs, i) = "new"
            PROVE  KeyOf(mem'.segs, i) = "new"
        <4>1. KeyOf(mem.segs, i) = "new"
          BY <2>1, <3>1, <1>1 DEF Sound, OrderPart
        <4>2. data[i] = "new"
          BY <4>1, <2>1, <1>1 DEF Sound, DataPart
        <4> QED BY <4>2, <2>2, <1>3, <1>7
      <3> QED BY <3>1, <1>1 DEF OrderPart
    <2> QED BY <2>3, <2>4, <2>5, <2>6 DEF Sound
  <1> QED BY <1>6, <1>8, <1>9 DEF ReencryptInv

LEMMA LoopEndsInv ==
    ASSUME ReencryptInv, LoopEnds
    PROVE  ReencryptInv'
  <1>0. Structure /\ (hasherrs = 0 => NotOld /\ Volatile) /\ (Handled => Sound)
    BY DEF ReencryptInv
  <1>1. /\ pc = "loop" /\ pc' = "teardown"
        /\ rh.read > 0 \/ rh.progress >= N
        /\ UNCHANGED <<hdr, oldkey, data, synced, area, areasync, mem, rh, stale,
                       world, deaths, powers, ioerrs, hasherrs>>
    BY DEF LoopEnds, faults
  <1>2. /\ mem \in Header /\ rh \in Context /\ mem.direction \in Direction
        /\ Aligned(rh, mem.direction) /\ ~rh.recovery /\ ~stale /\ IsClean(hdr)
        /\ rh.progress \in 0..N /\ IsClean(mem)
    BY <1>0, <1>1, LoopKeys
  <1>3. mem.segs = Clean(mem.direction, rh.progress)
    BY <1>0, <1>1, Sizes DEF Structure, LoopPart
  <1>4. Finished(rh) <=> rh.progress = N
    BY <1>2, Sizes DEF Finished
  <1>5. AllNew(mem) => rh.progress = N
    <2>1. rh.progress # N => mem.segs # <<[key |-> "new", size |-> N]>>
      BY <1>2, <1>3, CleanSegments
    <2> QED BY <2>1, <1>2, AllNewSegs
  <1>6. Structure'
    <2>1. TypeOK'
      BY <1>0, <1>1 DEF Structure, TypeOK, Steps
    <2>2. TeardownPart'
      BY <1>1, <1>2, <1>3, <1>4 DEF TeardownPart, IsClean, Finished
    <2>3. LoopPart' /\ StepPart' /\ RecoverPart' /\ EndPart'
      BY <1>1 DEF LoopPart, StepPart, RecoverPart, EndPart, Stepping, Ending
    <2>4. DiskPart'
      BY <1>0, <1>1, <1>2 DEF Structure, DiskPart, Named, Ending
    <2>5. HeaderOK(hdr') /\ HeaderOK(mem') /\ Aligned(rh', mem'.direction)
      BY <1>0, <1>1, <1>2 DEF Structure
    <2> QED BY <1>1, <2>1, <2>2, <2>3, <2>4, <2>5 DEF Structure
  <1>7. ASSUME hasherrs' = 0 PROVE NotOld' /\ Volatile'
    <2>1. NotOld /\ Volatile
      BY <1>7, <1>0, <1>1
    <2> QED BY <2>1, <1>1 DEF NotOld, NotOldAt, Volatile
  <1>8. ASSUME Handled' PROVE Sound'
    <2>1. Sound
      BY <1>8, <1>0, <1>1 DEF Handled
    <2>2. KeysPart'
      BY <2>1, <1>1, <1>4, <1>5 DEF Sound, KeysPart, KeysOn, Stepping, AllNew, Finished
    <2>3. WholePart'
      BY <1>1, <1>2 DEF WholePart
    <2>4. DataPart' /\ OrderPart'
      BY <2>1, <1>1 DEF Sound, DataPart, OrderPart
    <2> QED BY <2>2, <2>3, <2>4 DEF Sound
  <1> QED BY <1>6, <1>7, <1>8 DEF ReencryptInv

LEMMA ReadHotzoneInv ==
    ASSUME ReencryptInv, Foreseen, ReadHotzone
    PROVE  ReencryptInv'
  <1>0. Structure /\ (hasherrs = 0 => NotOld /\ Volatile) /\ (Handled => Sound)
    BY DEF ReencryptInv
  <1>1. pc = "read" /\ UNCHANGED <<hdr, oldkey, data, synced, area, areasync>>
    BY DEF ReadHotzone
  <1>2. CASE IOError /\ Release
    BY <1>0, <1>1, <1>2, IOErrorStops, SectorStays DEF Structure, TypeOK
  <1>3. CASE /\ rh' = [rh EXCEPT !.read = rh.length]
             /\ pc' = IF rh.type = "none" THEN "write" ELSE "protect"
             /\ UNCHANGED <<mem, stale, world, deaths, powers, ioerrs, hasherrs>>
    <2>1. /\ mem \in Header /\ rh \in Context /\ mem.direction \in Direction
          /\ Aligned(rh, mem.direction) /\ rh.progress < N
      BY <1>0, <1>1, SteppingKeys DEF Stepping
    <2>2. /\ rh' \in Context /\ rh'.offset = rh.offset /\ rh'.length = rh.length
          /\ rh'.progress = rh.progress /\ rh'.read = rh.length /\ rh'.type = rh.type
          /\ rh'.recovery = rh.recovery
      BY <1>3, <2>1 DEF Context
    <2>3. /\ ~rh.recovery /\ ~stale /\ mem.type = rh.type
          /\ mem.segs = Hot(mem.direction, rh.offset, rh.length)
          /\ IsClean(hdr)
      BY <1>0, <1>1, <2>1 DEF Structure, StepPart, Stepping, DiskPart, Named
    <2>4. Structure'
      <3>1. TypeOK'
        BY <1>0, <1>1, <1>3, <2>2 DEF Structure, TypeOK, Steps
      <3>2. LoopPart' /\ RecoverPart' /\ TeardownPart' /\ EndPart'
        BY <1>3 DEF LoopPart, RecoverPart, TeardownPart, EndPart, Ending
      <3>3. StepPart'
        BY <1>3, <2>1, <2>2, <2>3 DEF StepPart
      <3>4. DiskPart'
        BY <1>0, <1>1, <1>3, <2>2, <2>3 DEF Structure, DiskPart, Named, Ending
      <3>5. HeaderOK(hdr') /\ HeaderOK(mem') /\ Aligned(rh', mem'.direction)
        BY <1>0, <1>1, <1>3, <2>1, <2>2 DEF Structure, Aligned
      <3> QED BY <1>3, <3>1, <3>2, <3>3, <3>4, <3>5 DEF Structure
    <2>5. ASSUME hasherrs' = 0 PROVE NotOld' /\ Volatile'
      <3>1. NotOld /\ Volatile
        BY <2>5, <1>0, <1>3
      <3>2. NotOld'
        BY <3>1, <1>1, <1>3 DEF NotOld, NotOldAt
      <3>3. Volatile'
        BY <3>1, <1>1, <1>3, <2>2 DEF Volatile
      <3> QED BY <3>2, <3>3
    <2>6. ASSUME Handled' PROVE Sound'
      <3>1. Sound
        BY <2>6, <1>0, <1>3 DEF Handled
      <3>2. KeysPart' /\ WholePart'
        BY <3>1, <1>1, <1>3, <2>2, <2>3 DEF Sound, KeysPart, WholePart, KeysOn, Stepping
      <3>3. DataPart' /\ OrderPart'
        BY <3>1, <1>1, <1>3, <2>2 DEF Sound, DataPart, OrderPart, InZone
      <3> QED BY <3>2, <3>3 DEF Sound
    <2> QED BY <2>4, <2>5, <2>6 DEF ReencryptInv
  <1> QED BY <1>2, <1>3 DEF ReadHotzone, faults

(* The area that StoreArea writes has every sector of the hotzone.         *)
Stored ==
    [type |-> rh.type,
     cells |-> [k \in 1..rh.length |->
                  <<rh.offset + k - 1, data[rh.offset + k - 1]>>]]

LEMMA StoredOK ==
    ASSUME Structure, pc \in Stepping, rh.type # "none"
    PROVE  /\ Stored \in Area
           /\ \A i \in Sector :
                 InZone(rh, i) => Cell(Stored, rh.type, rh.offset, i, data[i])
  <1>1. /\ rh \in Context /\ mem.direction \in Direction
        /\ Aligned(rh, mem.direction) /\ rh.progress < N
    BY SteppingKeys
  <1>2. /\ rh.offset \in Nat /\ rh.length \in Nat \ {0} /\ rh.offset + rh.length <= N
        /\ rh.length \in 1..Zone
    BY <1>1, ZonePassed
  <1>3. rh.type \in {"checksum", "journal"} /\ data \in [Sector -> Content]
    BY <1>1 DEF Context, Structure, TypeOK
  <1> DEFINE c == [k \in 1..rh.length |-> <<rh.offset + k - 1, data[rh.offset + k - 1]>>]
  <1>4. c \in [1..rh.length -> Sector \X Content]
    <2>1. ASSUME NEW k \in 1..rh.length
          PROVE  <<rh.offset + k - 1, data[rh.offset + k - 1]>> \in Sector \X Content
      <3>1. rh.offset + k - 1 \in Sector
        BY <1>2, Sizes DEF Sector
      <3> QED BY <3>1, <1>3
    <2> QED BY <2>1
  <1>5. Stored \in Area
    <2>1. rh.length \in 0..Zone
      BY <1>2, Sizes
    <2>2. c \in UNION {[1..k -> Sector \X Content] : k \in 0..Zone}
      BY <2>1, <1>4
    <2> HIDE DEF c
    <2>3. Stored = [type |-> rh.type, cells |-> c]
      BY DEF Stored, c
    <2> QED BY <2>2, <2>3, <1>3 DEF Area
  <1>6. ASSUME NEW i \in Sector, InZone(rh, i)
        PROVE  Cell(Stored, rh.type, rh.offset, i, data[i])
    <2>1. i - rh.offset + 1 \in 1..rh.length /\ rh.offset + (i - rh.offset + 1) - 1 = i
      BY <1>6, <1>2, Sizes DEF InZone, Sector
    <2>2. c[i - rh.offset + 1] = <<i, data[i]>> /\ i - rh.offset + 1 \in DOMAIN c
      BY <2>1
    <2> HIDE DEF c
    <2>3. Stored = [type |-> rh.type, cells |-> c]
      BY DEF Stored, c
    <2> QED BY <2>2, <2>3 DEF Cell
  <1> QED BY <1>5, <1>6

LEMMA StoreAreaInv ==
    ASSUME ReencryptInv, Foreseen, StoreArea
    PROVE  ReencryptInv'
  <1>0. Structure /\ (hasherrs = 0 => NotOld /\ Volatile) /\ (Handled => Sound)
    BY DEF ReencryptInv
  <1>1. pc = "protect" /\ UNCHANGED <<hdr, oldkey, data, synced, areasync>>
    BY DEF StoreArea
  <1>2. CASE IOError /\ area' \in {area, Wiped} /\ Release
    BY <1>0, <1>1, <1>2, IOErrorStops, SectorStays DEF Structure, TypeOK
  <1>3. CASE /\ area' = Stored /\ pc' = "hot"
             /\ UNCHANGED <<mem, rh, stale, world, deaths, powers, ioerrs, hasherrs>>
    <2>1. /\ mem \in Header /\ HotStart(mem) = rh.offset
          /\ \A i \in Sector : KeyOf(mem.segs, i) = "hot" <=> InZone(rh, i)
      BY <1>0, <1>1, SteppingKeys DEF Stepping
    <2>2. /\ ~rh.recovery /\ ~stale /\ mem.type = rh.type /\ rh.type # "none"
          /\ IsClean(hdr) /\ hdr \in Header
      BY <1>0, <1>1 DEF Structure, StepPart, Stepping, DiskPart, Named, TypeOK
    <2>3. /\ Stored \in Area
          /\ \A i \in Sector :
                 InZone(rh, i) => Cell(Stored, rh.type, rh.offset, i, data[i])
      BY <1>0, <1>1, <2>2, StoredOK DEF Stepping
    <2>4. Structure'
      <3>1. TypeOK'
        BY <1>0, <1>1, <1>3, <2>3 DEF Structure, TypeOK, Steps
      <3>2. LoopPart' /\ RecoverPart' /\ TeardownPart' /\ EndPart'
        BY <1>3 DEF LoopPart, RecoverPart, TeardownPart, EndPart, Ending
      <3>3. StepPart'
        BY <1>0, <1>1, <1>3 DEF Structure, StepPart, Stepping
      <3>4. DiskPart'
        BY <1>0, <1>1, <1>3, <2>2 DEF Structure, DiskPart, Named, Ending
      <3>5. HeaderOK(hdr') /\ HeaderOK(mem') /\ Aligned(rh', mem'.direction)
        BY <1>0, <1>1, <1>3, <2>2 DEF Structure
      <3> QED BY <1>3, <3>1, <3>2, <3>3, <3>4, <3>5 DEF Structure
    <2>5. ASSUME hasherrs' = 0 PROVE NotOld' /\ Volatile'
      <3>1. NotOld /\ Volatile
        BY <2>5, <1>0, <1>3
      <3>2. ASSUME NEW i \in Sector
            PROVE  NotOldAt(hdr, Stored, i, data[i])
        <4>1. KeyOf(hdr.segs, i) = "new" => data[i] # "old"
          BY <3>1 DEF NotOld, NotOldAt
        <4> QED BY <4>1, <2>2, CleanNotOld
      <3>3. ASSUME NEW i \in Sector
            PROVE  NotOldAt(mem, Stored, i, data[i])
        <4>1. KeyOf(mem.segs, i) = "new" => data[i] # "old"
          BY <3>1, <1>1 DEF NotOld
        <4> QED BY <4>1, <2>1, <2>2, <2>3 DEF NotOldAt
      <3>4. NotOld'
        BY <3>1, <3>2, <3>3, <1>1, <1>3 DEF NotOld
      <3>5. Volatile'
        BY <3>1, <1>1, <1>3 DEF Volatile
      <3> QED BY <3>4, <3>5
    <2>6. ASSUME Handled' PROVE Sound'
      <3>1. Sound
        BY <2>6, <1>0, <1>3 DEF Handled
      <3>2. KeysPart' /\ WholePart'
        BY <3>1, <1>1, <1>3, <2>2 DEF Sound, KeysPart, WholePart, KeysOn, Stepping
      <3>3. ASSUME NEW i \in Sector
            PROVE  DecodableAt(hdr, Stored, i, data[i])
        <4>1. DecodableAt(hdr, area, i, data[i])
          BY <3>1, <2>2 DEF Sound, DataPart
        <4>2. data[i] = KeyOf(hdr.segs, i)
          BY <4>1, <2>2, CleanHeader DEF DecodableAt
        <4> QED BY <4>2, <2>2, CleanDecodable
      <3>4. ASSUME NEW i \in Sector
            PROVE  DecodableAt(mem, Stored, i, data[i])
        <4>1. /\ InZone(rh, i) => data[i] = "old"
              /\ KeyOf(mem.segs, i) # "hot" => data[i] = KeyOf(mem.segs, i)
          BY <3>1, <1>1 DEF Sound, DataPart
        <4> QED BY <4>1, <2>1, <2>2, <2>3 DEF DecodableAt
      <3>5. DataPart' /\ OrderPart'
        BY <3>1, <3>3, <3>4, <1>1, <1>3 DEF Sound, DataPart, OrderPart
      <3> QED BY <3>2, <3>5 DEF Sound
    <2> QED BY <2>4, <2>5, <2>6 DEF ReencryptInv
  <1> QED BY <1>2, <1>3 DEF StoreArea, faults, Stored

LEMMA CommitHotInv ==
    ASSUME ReencryptInv, Foreseen, CommitHot
    PROVE  ReencryptInv'
  <1>0. Structure /\ (hasherrs = 0 => NotOld /\ Volatile) /\ (Handled => Sound)
    BY DEF ReencryptInv
  <1>1. pc = "hot" /\ UNCHANGED <<oldkey, data, synced, area>>
    BY DEF CommitHot
  <1>2. /\ ~rh.recovery /\ ~stale /\ mem.type = rh.type /\ rh.type # "none"
        /\ Aligned(rh, mem.direction) /\ mem \in Header
    BY <1>0, <1>1 DEF Structure, StepPart, Stepping, TypeOK
  <1>3. CASE CommitFails(mem) /\ Release
    <2>1. /\ IOError /\ areasync' = areasync /\ Committing
          /\ hdr' = hdr \/ hdr' = Pending
      BY <1>1, <1>2, <1>3 DEF CommitFails, Committing, Pending
    <2> QED BY <2>1, <1>0, <1>1, <1>3, IOErrorStops, SectorStays DEF Structure, TypeOK
  <1>4. CASE /\ hdr' = mem /\ areasync' = area /\ pc' = "write"
             /\ UNCHANGED <<mem, rh, stale, world, deaths, powers, ioerrs, hasherrs>>
    <2>1. Structure'
      <3>1. TypeOK'
        BY <1>0, <1>1, <1>4 DEF Structure, TypeOK, Steps
      <3>2. LoopPart' /\ RecoverPart' /\ TeardownPart' /\ EndPart'
        BY <1>4 DEF LoopPart, RecoverPart, TeardownPart, EndPart, Ending
      <3>3. StepPart'
        BY <1>0, <1>1, <1>4 DEF Structure, StepPart, Stepping
      <3>4. DiskPart'
        BY <1>0, <1>1, <1>2, <1>4 DEF Structure, DiskPart, Named, Ending
      <3>5. HeaderOK(hdr') /\ HeaderOK(mem') /\ Aligned(rh', mem'.direction)
        BY <1>0, <1>1, <1>2, <1>4 DEF Structure
      <3> QED BY <1>4, <3>1, <3>2, <3>3, <3>4, <3>5 DEF Structure
    <2>2. ASSUME hasherrs' = 0 PROVE NotOld' /\ Volatile'
      <3>1. NotOld /\ Volatile
        BY <2>2, <1>0, <1>4
      <3> QED BY <3>1, <1>1, <1>4 DEF NotOld, NotOldAt, Volatile
    <2>3. ASSUME Handled' PROVE Sound'
      <3>1. Sound
        BY <2>3, <1>0, <1>4 DEF Handled
      <3>2. KeysPart' /\ WholePart'
        BY <3>1, <1>1, <1>2, <1>4 DEF Sound, KeysPart, WholePart, KeysOn, Stepping
      <3>3. DataPart' /\ OrderPart'
        BY <3>1, <1>1, <1>4 DEF Sound, DataPart, OrderPart
      <3> QED BY <3>2, <3>3 DEF Sound
    <2> QED BY <2>1, <2>2, <2>3 DEF ReencryptInv
  <1> QED BY <1>3, <1>4 DEF CommitHot, CommitOk, faults

LEMMA WriteHotzoneInv ==
    ASSUME ReencryptInv, Foreseen, WriteHotzone
    PROVE  ReencryptInv'
  <1>0. Structure /\ (hasherrs = 0 => NotOld /\ Volatile) /\ (Handled => Sound)
    BY DEF ReencryptInv
  <1>1. pc = "write" /\ UNCHANGED <<hdr, oldkey, synced, area, areasync>>
    BY DEF WriteHotzone
  <1>2. CASE /\ IOError /\ data' \in CutShort(rh.type, HotZone(rh), Written)
             /\ Release
    BY <1>0, <1>1, <1>2, IOErrorStops, CutShortWrite DEF Structure
  <1>3. CASE /\ data' = Written
             /\ pc' = IF rh.type = "none" THEN "post" ELSE "sync"
             /\ UNCHANGED <<mem, rh, stale, world, deaths, powers, ioerrs, hasherrs>>
    <2>1. /\ mem \in Header
          /\ Aligned(rh, mem.direction) /\ rh.progress < N
          /\ HotStart(mem) = rh.offset
          /\ \A i \in Sector : KeyOf(mem.segs, i) = "hot" <=> InZone(rh, i)
      BY <1>0, <1>1, SteppingKeys DEF Stepping
    <2>2. /\ ~rh.recovery /\ ~stale /\ mem.type = rh.type
          /\ rh.type # "none" => hdr = mem
          /\ rh.type = "none" => IsClean(hdr)
          /\ data \in [Sector -> Content] /\ hdr \in Header
      BY <1>0, <1>1 DEF Structure, StepPart, Stepping, DiskPart, Named, TypeOK
    <2>3. /\ data' \in [Sector -> Content]
          /\ \A i \in Sector :
               /\ InZone(rh, i) => data'[i] = Reencrypted(data[i])
               /\ ~InZone(rh, i) => data'[i] = data[i]
      BY <1>3, <2>2 DEF Written, HotZone, InZone, Content, Reencrypted
    <2>4. \A i \in Sector : data'[i] = "old" => data[i] = "old" /\ ~InZone(rh, i)
      BY <2>3 DEF Reencrypted
    <2>5. Structure'
      <3>1. TypeOK'
        BY <1>0, <1>1, <1>3, <2>3 DEF Structure, TypeOK, Steps
      <3>2. LoopPart' /\ RecoverPart' /\ TeardownPart' /\ EndPart'
        BY <1>3 DEF LoopPart, RecoverPart, TeardownPart, EndPart, Ending
      <3>3. StepPart'
        BY <1>0, <1>1, <1>3 DEF Structure, StepPart, Stepping
      <3>4. DiskPart'
        BY <1>0, <1>1, <1>3, <2>2 DEF Structure, DiskPart, Named, Ending
      <3>5. HeaderOK(hdr') /\ HeaderOK(mem') /\ Aligned(rh', mem'.direction)
        BY <1>0, <1>1, <1>3, <2>1 DEF Structure
      <3> QED BY <1>3, <3>1, <3>2, <3>3, <3>4, <3>5 DEF Structure
    <2>6. ASSUME hasherrs' = 0 PROVE NotOld' /\ Volatile'
      <3>1. NotOld /\ Volatile
        BY <2>6, <1>0, <1>3
      <3>2. NotOld'
        BY <3>1, <2>4, <1>1, <1>3 DEF NotOld, NotOldAt
      <3>3. ASSUME world.volatile # {}, powers = 0
            PROVE  /\ pc' = "sync" /\ rh.type # "none"
                   /\ \A i \in Sector :
                        \/ synced[i] = data'[i]
                        \/ InZone(rh, i) /\ NotOldAt(hdr, area, i, synced[i])
                           /\ (Handled => synced[i] = "old")
        <4>1. rh.type # "none" /\ synced = data
          BY <3>1, <3>3, <1>1 DEF Volatile
        <4>2. Handled => \A i \in Sector : InZone(rh, i) => data[i] = "old"
          BY <1>0, <1>1 DEF Sound, DataPart
        <4> QED BY <4>1, <4>2, <3>1, <2>3, <1>3 DEF NotOld
      <3>4. Handled' <=> Handled
        BY <1>3 DEF Handled
      <3>5. Volatile'
        BY <3>3, <3>4, <2>2, <1>1, <1>3 DEF Volatile
      <3> QED BY <3>2, <3>5
    <2>7. ASSUME Handled' PROVE Sound'
      <3>1. Sound
        BY <2>7, <1>0, <1>3 DEF Handled
      <3>2. KeysPart' /\ WholePart'
        BY <3>1, <1>1, <1>3, <2>2 DEF Sound, KeysPart, WholePart, KeysOn, Stepping
      <3>3. \A i \in Sector : InZone(rh, i) => data'[i] = "new" /\ data[i] = "old"
        BY <3>1, <2>3, <1>1 DEF Sound, DataPart, Reencrypted
      <3>4. ASSUME rh.type # "none", NEW i \in Sector
            PROVE  DecodableAt(hdr, area, i, data'[i])
        <4>1. DecodableAt(hdr, area, i, data[i])
          BY <3>1, <3>4 DEF Sound, DataPart
        <4>2. CASE InZone(rh, i)
          BY <4>1, <4>2, <3>3, <3>4, <2>1, <2>2 DEF DecodableAt
        <4>3. CASE ~InZone(rh, i)
          BY <4>1, <4>3, <2>3
        <4> QED BY <4>2, <4>3
      <3>5. \A i \in Sector : KeyOf(mem.segs, i) # "hot" => data'[i] = KeyOf(mem.segs, i)
        BY <3>1, <2>1, <2>3, <1>1 DEF Sound, DataPart
      <3>6. DataPart' /\ OrderPart'
        BY <3>1, <3>3, <3>4, <3>5, <1>1, <1>3 DEF Sound, DataPart, OrderPart
      <3> QED BY <3>2, <3>6 DEF Sound
    <2> QED BY <2>5, <2>6, <2>7 DEF ReencryptInv
  <1> QED BY <1>2, <1>3 DEF WriteHotzone, faults

LEMMA DatasyncInv ==
    ASSUME ReencryptInv, Foreseen, Datasync
    PROVE  ReencryptInv'
  <1>0. Structure /\ (hasherrs = 0 => NotOld /\ Volatile) /\ (Handled => Sound)
    BY DEF ReencryptInv
  <1>1. pc = "sync" /\ UNCHANGED <<hdr, oldkey, data, area, areasync>>
    BY DEF Datasync
  <1>2. CASE synced' = synced /\ IOError /\ Release
    BY <1>0, <1>1, <1>2, IOErrorStops, SectorStays DEF Structure, TypeOK
  <1>3. CASE /\ synced' = data /\ pc' = "post"
             /\ UNCHANGED <<mem, rh, stale, world, deaths, powers, ioerrs, hasherrs>>
    <2>1. ~rh.recovery /\ ~stale /\ Aligned(rh, mem.direction) /\ rh.type # "none"
      BY <1>0, <1>1 DEF Structure, StepPart, Stepping
    <2>2. Structure'
      <3>1. TypeOK'
        BY <1>0, <1>1, <1>3 DEF Structure, TypeOK, Steps
      <3>2. LoopPart' /\ RecoverPart' /\ TeardownPart' /\ EndPart'
        BY <1>3 DEF LoopPart, RecoverPart, TeardownPart, EndPart, Ending
      <3>3. StepPart'
        BY <1>0, <1>1, <1>3 DEF Structure, StepPart, Stepping
      <3>4. DiskPart'
        BY <1>0, <1>1, <1>3, <2>1 DEF Structure, DiskPart, Named, Ending
      <3>5. HeaderOK(hdr') /\ HeaderOK(mem') /\ Aligned(rh', mem'.direction)
        BY <1>0, <1>1, <1>3, <2>1 DEF Structure
      <3> QED BY <1>3, <3>1, <3>2, <3>3, <3>4, <3>5 DEF Structure
    <2>3. ASSUME hasherrs' = 0 PROVE NotOld' /\ Volatile'
      <3>1. NotOld /\ Volatile
        BY <2>3, <1>0, <1>3
      <3> QED BY <3>1, <2>1, <1>1, <1>3 DEF NotOld, NotOldAt, Volatile
    <2>4. ASSUME Handled' PROVE Sound'
      <3>1. Sound
        BY <2>4, <1>0, <1>3 DEF Handled
      <3>2. KeysPart' /\ WholePart'
        BY <3>1, <1>1, <1>3, <2>1 DEF Sound, KeysPart, WholePart, KeysOn, Stepping
      <3>3. DataPart' /\ OrderPart'
        BY <3>1, <1>1, <1>3 DEF Sound, DataPart, OrderPart
      <3> QED BY <3>2, <3>3 DEF Sound
    <2> QED BY <2>2, <2>3, <2>4 DEF ReencryptInv
  <1> QED BY <1>2, <1>3 DEF Datasync, faults

(* reencrypt_context_update after a hotzone that was read whole.           *)
LEMMA NextAligned ==
    ASSUME NEW d \in Direction, NEW r \in Context, Aligned(r, d), r.progress < N,
           r.read = r.length
    PROVE  LET n == NextContext(r, d)
           IN  /\ n \in Context /\ n.type = r.type /\ n.recovery = r.recovery
               /\ n.progress = r.progress + r.length /\ n.read = r.length
               /\ Aligned(n, d)
  <1> DEFINE n == NextContext(r, d)
             o == IF d = "backward" THEN r.offset - Least(r.offset, r.length)
                  ELSE r.offset + r.read
             l == Least(r.length, IF d = "backward" THEN r.offset ELSE N - o)
             p == r.progress + r.read
  <1>1. n = [r EXCEPT !.offset = o, !.length = l, !.progress = p]
    BY DEF NextContext
  <1>2. /\ r.offset \in Nat /\ r.length \in Nat /\ r.progress \in Nat
        /\ r.length > 0 /\ r.length <= Zone /\ r.progress + r.length <= N
        /\ r.offset = IF d = "forward" THEN r.progress ELSE N - (r.progress + r.length)
    BY Sizes DEF Context, Aligned
  <1>3. /\ n.offset = o /\ n.length = l /\ n.progress = p /\ n.read = r.read
        /\ n.type = r.type /\ n.recovery = r.recovery
    BY <1>1 DEF Context
  <1>4. CASE d = "forward"
    <2>1. o = r.progress + r.length /\ o \in Nat /\ o <= N /\ p = o
      BY <1>2, <1>4
    <2>2. /\ l \in Nat /\ l <= r.length /\ l <= N - o
          /\ o < N => l > 0
      <3> HIDE DEF o
      <3> QED BY <1>2, <1>4, <2>1, Sizes DEF Least
    <2> HIDE DEF o, l, p, n
    <2>3. Aligned(n, d)
      BY <1>2, <1>3, <1>4, <2>1, <2>2, Sizes DEF Aligned
    <2>4. o \in 0..N /\ l \in 0..N /\ p \in 0..(2 * N)
      BY <1>2, <2>1, <2>2, Sizes
    <2>5. n \in Context
      BY <1>1, <2>4 DEF Context
    <2> QED BY <1>3, <2>3, <2>5, <2>1 DEF p, n
  <1>5. CASE d = "backward"
    <2>1. r.offset = N - (r.progress + r.length) /\ p = r.progress + r.length
      BY <1>2, <1>5
    <2>2. /\ l \in Nat /\ o \in Nat /\ o + l = r.offset /\ l <= r.length
          /\ r.offset > 0 => l > 0
      BY <1>2, <1>5 DEF Least
    <2> HIDE DEF o, l, p, n
    <2>3. Aligned(n, d)
      BY <1>2, <1>3, <1>5, <2>1, <2>2, Sizes DEF Aligned
    <2>4. o \in 0..N /\ l \in 0..N /\ p \in 0..(2 * N)
      BY <1>2, <2>1, <2>2, Sizes
    <2>5. n \in Context
      BY <1>1, <2>4 DEF Context
    <2> QED BY <1>3, <2>3, <2>5, <2>1 DEF p, n
  <1> QED BY <1>4, <1>5 DEF Direction

LEMMA CommitPostInv ==
    ASSUME ReencryptInv, Foreseen, CommitPost
    PROVE  ReencryptInv'
  <1>0. Structure /\ (hasherrs = 0 => NotOld /\ Volatile) /\ (Handled => Sound)
    BY DEF ReencryptInv
  <1>1. pc = "post" /\ UNCHANGED <<oldkey, data, synced, area>>
    BY DEF CommitPost
  <1>2. /\ ~rh.recovery /\ ~stale /\ rh.read = rh.length
        /\ rh.type # "none" => hdr = mem
        /\ rh.type = "none" => IsClean(hdr)
        /\ oldkey
    BY <1>0, <1>1 DEF Structure, StepPart, Stepping, DiskPart, Named, Ending
  <1>3. CASE rh.type # "none" /\ CommitFails(Pending) /\ Release
    <2>1. /\ IOError /\ areasync' = areasync /\ Committing
          /\ hdr' = hdr \/ hdr' = Pending
      BY <1>1, <1>2, <1>3 DEF CommitFails, Committing
    <2> QED BY <2>1, <1>0, <1>1, <1>3, IOErrorStops, SectorStays DEF Structure, TypeOK
  <1>4. CASE /\ IF rh.type = "none" THEN UNCHANGED <<hdr, areasync, faults>>
                ELSE CommitOk(Pending)
             /\ mem' = Pending /\ rh' = NextContext(rh, mem.direction)
             /\ pc' = "loop"
             /\ UNCHANGED stale
    <2>1. /\ mem \in Header /\ rh \in Context /\ mem.direction \in Direction
          /\ Aligned(rh, mem.direction) /\ rh.progress < N
          /\ PostSegs(mem.direction, mem.segs)
                 = Clean(mem.direction, rh.progress + rh.length)
          /\ \A i \in Sector : KeyOf(mem.segs, i) = "hot" <=> InZone(rh, i)
          /\ \A i \in Sector : ~InZone(rh, i) =>
                KeyOf(mem.segs, i) = IF Passed(mem.direction, rh.progress, i)
                                     THEN "new" ELSE "old"
      BY <1>0, <1>1, SteppingKeys DEF Stepping
    <2>2. /\ rh.progress + rh.length \in 0..N
          /\ rh.length \in Nat \ {0}
          /\ \A i \in Sector :
               Passed(mem.direction, rh.progress + rh.length, i)
                   <=> Passed(mem.direction, rh.progress, i) \/ InZone(rh, i)
      BY <2>1, ZonePassed
    <2>3. Pending = Assigned(mem, Clean(mem.direction, rh.progress + rh.length))
      BY <1>1, <2>1 DEF Pending
    <2>4. /\ mem' \in Header /\ HeaderOK(mem') /\ IsClean(mem')
          /\ mem'.direction = mem.direction
          /\ mem'.segs = Clean(mem.direction, rh.progress + rh.length)
          /\ mem'.flag = mem.flag /\ mem'.reencslot = mem.reencslot
          /\ mem'.oldslot = mem.oldslot
      BY <1>4, <2>1, <2>2, <2>3, AssignedClean
    <2>5. \A i \in Sector :
             /\ InZone(rh, i) => KeyOf(mem'.segs, i) = "new"
             /\ ~InZone(rh, i) => KeyOf(mem'.segs, i) = KeyOf(mem.segs, i)
      <3>1. \A i \in Sector :
               KeyOf(mem'.segs, i) =
                   IF Passed(mem.direction, rh.progress + rh.length, i)
                   THEN "new" ELSE "old"
        BY <2>1, <2>2, <2>4, CleanSegments
      <3> QED BY <3>1, <2>1, <2>2
    <2>6. /\ rh' \in Context /\ rh'.type = rh.type /\ rh'.recovery = rh.recovery
          /\ rh'.progress = rh.progress + rh.length /\ rh'.read = rh.length
          /\ Aligned(rh', mem.direction)
      BY <1>2, <1>4, <2>1, NextAligned
    <2>7. /\ hdr' = hdr \/ hdr' = mem'
          /\ rh.type # "none" => hdr' = mem'
          /\ areasync' = areasync \/ areasync' = area
          /\ UNCHANGED <<world, deaths, powers, ioerrs, hasherrs>>
      BY <1>4 DEF CommitOk, faults
    <2>8. HeaderOK(hdr') /\ IsClean(hdr') /\ hdr' \in Header
      BY <1>0, <1>2, <2>4, <2>7 DEF Structure, TypeOK
    <2>9. Structure'
      <3>1. TypeOK'
        BY <1>0, <1>1, <1>4, <2>4, <2>6, <2>7, <2>8 DEF Structure, TypeOK, Steps
      <3>2. StepPart' /\ RecoverPart' /\ TeardownPart' /\ EndPart'
        BY <1>4 DEF StepPart, RecoverPart, TeardownPart, EndPart, Ending, Stepping
      <3>3. LoopPart'
        BY <1>2, <1>4, <2>4, <2>6 DEF LoopPart
      <3>4. DiskPart'
        BY <1>1, <1>2, <1>4, <2>6, <2>8 DEF DiskPart, Named
      <3> QED BY <1>4, <2>4, <2>6, <2>8, <3>1, <3>2, <3>3, <3>4 DEF Structure
    <2>10. ASSUME hasherrs' = 0 PROVE NotOld' /\ Volatile'
      <3>1. NotOld /\ Volatile
        BY <2>10, <1>0, <2>7
      <3>2. \A i \in Sector : KeyOf(mem'.segs, i) = "new" => data[i] # "old"
        BY <3>1, <2>5, <1>1 DEF NotOld
      <3>3. ASSUME NEW i \in Sector PROVE NotOldAt(hdr', area, i, data[i])
        <4>1. KeyOf(hdr'.segs, i) = "new" => data[i] # "old"
          BY <3>1, <3>2, <2>7 DEF NotOld, NotOldAt
        <4> QED BY <4>1, <2>8, CleanNotOld
      <3>4. NotOld'
        BY <3>1, <3>2, <3>3, <1>1, <1>2, <1>4 DEF NotOld
      <3>5. Volatile'
        BY <3>1, <1>1, <1>2, <1>4, <2>6, <2>7 DEF Volatile
      <3> QED BY <3>4, <3>5
    <2>11. ASSUME Handled' PROVE Sound'
      <3>1. Sound
        BY <2>11, <1>0, <2>7 DEF Handled
      <3>2. KeysOn(hdr) /\ KeysOn(mem) /\ KeysOn(mem') /\ KeysOn(hdr')
        BY <3>1, <1>1, <2>4, <2>7 DEF Sound, KeysPart, KeysOn, Stepping
      <3>3. KeysPart'
        BY <3>2, <1>1, <1>2, <1>4, <2>4, <2>6 DEF KeysPart, Stepping
      <3>4. WholePart'
        BY <1>2, <1>4, <2>6 DEF WholePart
      <3>5. \A i \in Sector : data[i] = KeyOf(mem'.segs, i)
        BY <3>1, <2>1, <2>5, <1>1 DEF Sound, DataPart
      <3>6. rh.type # "none" => \A i \in Sector : DecodableAt(hdr', area, i, data[i])
        BY <3>5, <2>7, <2>8, CleanDecodable
      <3>7. DataPart'
        BY <3>5, <3>6, <1>1, <1>4, <2>6 DEF DataPart
      <3>8. OrderPart'
        BY <3>1, <1>1, <1>4, <2>1, <2>5, <2>7 DEF Sound, OrderPart
      <3> QED BY <3>3, <3>4, <3>7, <3>8 DEF Sound
    <2> QED BY <2>9, <2>10, <2>11 DEF ReencryptInv
  <1> QED BY <1>3, <1>4 DEF CommitPost

-----------------------------------------------------------------------------
(* The recovery                                                            *)

(* The context of a recovery, from a header with a hotzone.                *)
LEMMA HotContext ==
    ASSUME NEW h \in Header, NEW o \in Nat, NEW l \in 1..Zone, o + l <= N,
           h.segs = Hot(h.direction, o, l)
    PROVE  LET r == CrashedContext(h)
           IN  /\ r \in Context /\ r.recovery /\ r.type = h.type
               /\ r.offset = o /\ r.length = l
               /\ r.progress = Before(h.direction, o, Least(Zone, N - o))
  <1> DEFINE r == CrashedContext(h)
             m == Least(Zone, N - o)
  <1>0. l \in Nat \ {0} /\ h.direction \in Direction /\ h.type \in {"none", "checksum", "journal"}
    BY Sizes DEF Header, Direction
  <1>1. /\ HotSeg(h.segs) \in {1, 2}
        /\ SegStart(h.segs, HotSeg(h.segs)) = o
        /\ h.segs[HotSeg(h.segs)].size = l
    BY <1>0, HotHeader DEF HotStart
  <1>2. HotSeg(h.segs) > 0 /\ HotSeg(h.segs) # 0
    BY <1>1
  <1>3. ContextOf(h, h.type, Zone)
           = [offset |-> o, length |-> m,
              progress |-> IF h.direction = "backward" THEN N - (o + m) ELSE o,
              read |-> 0, type |-> h.type, recovery |-> FALSE]
    <2> DEFINE k == HotSeg(h.segs)
               f == IF k = 0 /\ h.direction = "backward"
                    THEN Least(Zone, Remaining(h)) ELSE Zone
               e == IF k > 0 THEN SegStart(h.segs, k)
                    ELSE IF h.direction = "backward" THEN Remaining(h) - f
                         ELSE IF Len(h.segs) = 1 THEN 0 ELSE Remaining(h)
    <2>1. ContextOf(h, h.type, Zone)
             = [offset |-> e, length |-> Least(f, N - e),
               progress |-> IF h.direction = "backward"
                            THEN N - (e + Least(f, N - e)) ELSE e,
               read |-> 0, type |-> h.type, recovery |-> FALSE]
      BY DEF ContextOf
    <2>2. f = Zone /\ e = o
      BY <1>1, <1>2
    <2> HIDE DEF f, e
    <2> QED BY <2>1, <2>2
  <1> DEFINE g == IF h.direction = "backward" THEN N - (o + m) ELSE o
             q == [offset |-> o, length |-> m, progress |-> g,
                   read |-> 0, type |-> h.type, recovery |-> FALSE]
  <1>4. r = [q EXCEPT !.length = l, !.recovery = TRUE]
    BY <1>1, <1>3 DEF CrashedContext
  <1>5. m \in Nat /\ m <= N /\ o + m <= N
    BY <1>0, Sizes DEF Least
  <1>6. g = Before(h.direction, o, m)
    BY <1>0 DEF Before, Direction
  <1> HIDE DEF m
  <1>7. o \in 0..N /\ l \in 0..N /\ m \in 0..N /\ 0 \in 0..N /\ g \in 0..(2 * N)
    BY <1>0, <1>5, Sizes
  <1> HIDE DEF g, r
  <1>8. q \in Context
    BY <1>7, <1>0 DEF Context
  <1>9. q.offset = o /\ q.progress = g /\ q.type = h.type
    OBVIOUS
  <1> HIDE DEF q
  <1>10. /\ r \in Context /\ r.recovery /\ r.length = l
         /\ r.offset = q.offset /\ r.progress = q.progress /\ r.type = q.type
    BY <1>4, <1>7, <1>8 DEF Context
  <1> QED BY <1>6, <1>9, <1>10 DEF m, r

LEMMA LoadCrashedInv ==
    ASSUME ReencryptInv, Foreseen, LoadCrashed
    PROVE  ReencryptInv'
  <1>0. Structure /\ (hasherrs = 0 => NotOld /\ Volatile) /\ (Handled => Sound)
    BY DEF ReencryptInv
  <1>1. /\ pc = "idle" /\ hdr.flag /\ HotSeg(hdr.segs) # 0 /\ oldkey
        /\ hdr.reencslot /\ hdr.oldslot
        /\ mem' = hdr /\ rh' = CrashedContext(hdr) /\ pc' = "recover"
        /\ UNCHANGED <<hdr, oldkey, data, synced, area, areasync, stale,
                       world, deaths, powers, ioerrs, hasherrs>>
    BY DEF LoadCrashed, Status, Unlockable, faults
  <1>2. TypeOK /\ hdr \in Header /\ HeaderOK(hdr) /\ stale = FALSE
    BY <1>0, <1>1 DEF Structure, TypeOK
  <1>3. ~IsClean(hdr)
    BY <1>1, <1>2, CleanHeader
  <1>4. PICK o \in 0..N, l \in 1..Zone :
           o + l <= N /\ hdr.segs = Hot(hdr.direction, o, l)
    BY <1>2, <1>3 DEF HeaderOK, IsHot
  <1>5. hdr.type # "none"
    BY <1>0, <1>3 DEF Structure, DiskPart
  <1>6. /\ rh' \in Context /\ rh'.recovery /\ rh'.type = hdr.type
        /\ rh'.offset = o /\ rh'.length = l
        /\ rh'.progress = Before(hdr.direction, o, Least(Zone, N - o))
    <2>1. o \in Nat
      BY Sizes
    <2> QED BY <1>1, <1>2, <1>4, <2>1, HotContext
  <1>7. Structure'
    <2>1. TypeOK'
      BY <1>1, <1>2, <1>6 DEF TypeOK, Steps
    <2>2. RecoverPart'
      BY <1>1, <1>2, <1>4, <1>5, <1>6 DEF RecoverPart
    <2>3. LoopPart' /\ StepPart' /\ TeardownPart' /\ EndPart'
      BY <1>1 DEF LoopPart, StepPart, TeardownPart, EndPart, Stepping, Ending
    <2>4. DiskPart'
      BY <1>0, <1>1, <1>2, <1>5, <1>6 DEF Structure, DiskPart, Named
    <2> QED BY <1>1, <1>2, <1>6, <2>1, <2>2, <2>3, <2>4 DEF Structure
  <1>8. ASSUME hasherrs' = 0 PROVE NotOld' /\ Volatile'
    <2>1. NotOld /\ Volatile
      BY <1>8, <1>0, <1>1
    <2>2. NotOld'
      BY <2>1, <1>1 DEF NotOld, NotOldAt
    <2> QED BY <2>1, <2>2, <1>1, <1>3 DEF Volatile
  <1>9. ASSUME Handled' PROVE Sound'
    <2>1. Sound
      BY <1>9, <1>0, <1>1 DEF Handled
    <2>2. KeysPart'
      BY <1>1, <1>2 DEF KeysPart, KeysOn, Stepping
    <2>3. WholePart'
      BY <2>1, <1>1 DEF Sound, WholePart
    <2>4. \A i \in Sector : DecodableAt(hdr, area, i, data[i])
      BY <2>1, <1>1 DEF Sound, DataPart
    <2>5. DataPart'
      BY <1>1, <2>4 DEF DataPart, DecodableAt
    <2> QED BY <2>2, <2>3, <2>5, <1>1 DEF Sound, OrderPart
  <1> QED BY <1>7, <1>8, <1>9 DEF ReencryptInv

(* reencrypt_context_update after a recovery of n sectors: the run is      *)
(* finished only if the hotzone was the last one.                          *)
LEMMA RecoveredContext ==
    ASSUME NEW d \in Direction, NEW r \in Context,
           r.length \in 1..Zone, r.offset + r.length <= N,
           r.progress = Before(d, r.offset, Least(Zone, N - r.offset)),
           NEW n \in {0, r.length}
    PROVE  LET q == NextContext([r EXCEPT !.read = n], d)
           IN  /\ q \in Context /\ q.type = r.type /\ q.recovery = r.recovery
               /\ Finished(q) => After(d, r.offset, r.length) = N
               /\ /\ n = r.length /\ After(d, r.offset, r.length) = N
                  /\ d = "backward" /\ r.offset = 0 => r.length = Zone
                  => Finished(q)
  <1> DEFINE s == [r EXCEPT !.read = n]
             q == NextContext(s, d)
             o == IF d = "backward" THEN r.offset - Least(r.offset, r.length)
                  ELSE r.offset + n
             l == Least(r.length, IF d = "backward" THEN r.offset ELSE N - o)
             m == Least(Zone, N - r.offset)
             p == r.progress + n
  <1>1. /\ r.offset \in Nat /\ r.length \in Nat /\ r.progress \in Nat
        /\ r.length > 0 /\ r.length <= Zone /\ n \in Nat /\ n <= r.length
        /\ n \in 0..N
    BY Sizes DEF Context
  <1>2. /\ s \in Context /\ s.offset = r.offset /\ s.length = r.length
        /\ s.progress = r.progress /\ s.type = r.type /\ s.recovery = r.recovery
        /\ s.read = n
    BY <1>1 DEF Context
  <1>3. q = [s EXCEPT !.offset = o, !.length = l, !.progress = p]
    <2> HIDE DEF s
    <2> QED BY <1>2 DEF NextContext
  <1>4. m \in Nat /\ m >= r.length
    BY <1>1, Sizes DEF Least
  <1>5. r.progress = IF d = "forward" THEN r.offset ELSE N - (r.offset + m)
    BY DEF Before
  <1>6. o \in 0..N /\ l \in 0..N /\ p \in 0..(2 * N)
    <2>1. p \in 0..(2 * N)
      <3> HIDE DEF m
      <3>1. r.progress <= N /\ r.offset + r.length <= N
        BY <1>1, <1>4, <1>5, Sizes
      <3> QED BY <3>1, <1>1, Sizes
    <2>2. CASE d = "backward"
      BY <2>1, <2>2, <1>1, Sizes DEF Least
    <2>3. CASE d # "backward"
      <3>1. o = r.offset + n /\ o \in Nat /\ o <= N
        BY <2>3, <1>1, Sizes
      <3> HIDE DEF o
      <3>2. l = Least(r.length, N - o)
        BY <2>3
      <3>3. l \in Nat /\ l <= N
        BY <3>1, <3>2, <1>1, Sizes DEF Least
      <3> QED BY <2>1, <3>1, <3>3, Sizes
    <2> QED BY <2>2, <2>3
  <1> HIDE DEF s, o, l
  <1>7. /\ q \in Context /\ q.type = s.type /\ q.recovery = s.recovery
        /\ q.progress = p
    <2> HIDE DEF p
    <2> QED BY <1>2, <1>3, <1>6 DEF Context
  <1> HIDE DEF q, m
  <1>8. Finished(q) => After(d, r.offset, r.length) = N
    BY <1>1, <1>4, <1>5, <1>7, Sizes DEF Finished, After
  <1>9. ASSUME n = r.length, After(d, r.offset, r.length) = N,
               d = "backward" /\ r.offset = 0 => r.length = Zone
        PROVE  Finished(q)
    <2>1. CASE d = "forward"
      BY <2>1, <1>1, <1>5, <1>7, <1>9, Sizes DEF Finished, After
    <2>2. CASE d = "backward"
      <3>1. r.offset = 0 /\ r.length = Zone
        BY <2>2, <1>1, <1>9, Sizes DEF After
      <3>2. m = Zone
        BY <3>1, Sizes DEF m, Least
      <3> QED BY <2>2, <3>1, <3>2, <1>1, <1>5, <1>7, <1>9, Sizes DEF Finished
    <2> QED BY <2>1, <2>2 DEF Direction
  <1> QED BY <1>2, <1>7, <1>8, <1>9 DEF q, s

(* The sectors passed before and after the recovery of a hotzone.          *)
LEMMA HotPassed ==
    ASSUME NEW d \in Direction, NEW o \in Nat, NEW l \in Nat \ {0}, o + l <= N
    PROVE  /\ After(d, o, l) \in 0..N
           /\ \A i \in Sector :
                Passed(d, After(d, o, l), i)
                    <=> Passed(d, Before(d, o, l), i) \/ (o <= i /\ i < o + l)
  <1>1. After(d, o, l) \in 0..N
    BY Sizes DEF After
  <1>2. ASSUME NEW i \in Sector
        PROVE  Passed(d, After(d, o, l), i)
                    <=> Passed(d, Before(d, o, l), i) \/ (o <= i /\ i < o + l)
    <2>1. i \in Nat /\ i < N
      BY Sizes DEF Sector
    <2> QED BY <2>1, Sizes DEF Passed, Before, After
  <1> QED BY <1>1, <1>2

(* The state of a recovery, and what it makes of the header in memory.     *)
LEMMA RecoverFacts ==
    ASSUME Structure, pc = "recover"
    PROVE  /\ rh.recovery /\ ~stale /\ mem = hdr /\ oldkey
           /\ hdr \in Header /\ rh \in Context /\ hdr.direction \in Direction
           /\ rh.type = hdr.type /\ rh.type \in {"checksum", "journal"}
           /\ rh.offset \in Nat /\ rh.length \in 1..Zone /\ rh.length \in Nat \ {0}
           /\ rh.offset + rh.length <= N
           /\ hdr.segs = Hot(hdr.direction, rh.offset, rh.length)
           /\ rh.progress = Before(hdr.direction, rh.offset, Least(Zone, N - rh.offset))
           /\ HotStart(hdr) = rh.offset
           /\ hdr.segs[HotSeg(hdr.segs)].size = rh.length
           /\ HotSeg(hdr.segs) # 0
           /\ \A i \in Sector : KeyOf(hdr.segs, i) = "hot" <=> InZone(rh, i)
           /\ PostSegs(hdr.direction, hdr.segs)
                  = Clean(hdr.direction, After(hdr.direction, rh.offset, rh.length))
           /\ LET m == Assigned(hdr, PostSegs(hdr.direction, hdr.segs))
              IN  /\ m \in Header /\ HeaderOK(m) /\ IsClean(m)
                  /\ m.direction = hdr.direction
                  /\ m.flag = hdr.flag /\ m.reencslot = hdr.reencslot
                  /\ m.oldslot = hdr.oldslot
                  /\ m.segs = Clean(hdr.direction,
                                    After(hdr.direction, rh.offset, rh.length))
                  /\ \A i \in Sector :
                        /\ InZone(rh, i) => KeyOf(m.segs, i) = "new"
                        /\ ~InZone(rh, i) => KeyOf(m.segs, i) = KeyOf(hdr.segs, i)
  <1> DEFINE d == hdr.direction
             e == After(hdr.direction, rh.offset, rh.length)
             m == Assigned(hdr, PostSegs(hdr.direction, hdr.segs))
  <1>1. /\ rh.recovery /\ ~stale /\ mem = hdr /\ oldkey
        /\ hdr \in Header /\ rh \in Context
        /\ rh.type = hdr.type /\ rh.type # "none"
        /\ rh.length \in 1..Zone /\ rh.offset + rh.length <= N
        /\ hdr.segs = Hot(hdr.direction, rh.offset, rh.length)
        /\ rh.progress = Before(hdr.direction, rh.offset, Least(Zone, N - rh.offset))
    BY DEF Structure, TypeOK, RecoverPart, DiskPart, Ending
  <1>2. /\ d \in Direction /\ rh.type \in {"checksum", "journal"}
        /\ rh.offset \in Nat /\ rh.length \in Nat \ {0}
    BY <1>1, Sizes DEF Header, Direction, Context
  <1>3. /\ HotStart(hdr) = rh.offset /\ HotSeg(hdr.segs) # 0
        /\ hdr.segs[HotSeg(hdr.segs)].size = rh.length
        /\ \A i \in Sector : KeyOf(hdr.segs, i) = "hot" <=> InZone(rh, i)
        /\ \A i \in Sector : ~InZone(rh, i) =>
              KeyOf(hdr.segs, i) = IF Passed(d, Before(d, rh.offset, rh.length), i)
                                   THEN "new" ELSE "old"
        /\ PostSegs(hdr.direction, hdr.segs) = Clean(d, e)
    BY <1>1, <1>2, HotHeader DEF InZone
  <1>4. /\ e \in 0..N
        /\ \A i \in Sector :
             Passed(d, e, i) <=> Passed(d, Before(d, rh.offset, rh.length), i)
                                 \/ InZone(rh, i)
    BY <1>1, <1>2, HotPassed DEF InZone
  <1> HIDE DEF e
  <1>5. /\ m \in Header /\ HeaderOK(m) /\ IsClean(m)
        /\ m.direction = hdr.direction
        /\ m.flag = hdr.flag /\ m.reencslot = hdr.reencslot
        /\ m.oldslot = hdr.oldslot
        /\ m.segs = Clean(d, e)
    BY <1>1, <1>3, <1>4, AssignedClean
  <1> HIDE DEF m
  <1>6. \A i \in Sector : KeyOf(m.segs, i) = IF Passed(d, e, i) THEN "new" ELSE "old"
    BY <1>2, <1>4, <1>5, CleanSegments
  <1>7. \A i \in Sector :
           /\ InZone(rh, i) => KeyOf(m.segs, i) = "new"
           /\ ~InZone(rh, i) => KeyOf(m.segs, i) = KeyOf(hdr.segs, i)
    BY <1>3, <1>4, <1>6
  <1> QED BY <1>1, <1>2, <1>3, <1>5, <1>7 DEF m, e

LEMMA RecoverSegmentInv ==
    ASSUME ReencryptInv, Foreseen, RecoverSegment
    PROVE  ReencryptInv'
  <1>0. Structure /\ (hasherrs = 0 => NotOld /\ Volatile) /\ (Handled => Sound)
    BY DEF ReencryptInv
  <1>1. pc = "recover" /\ UNCHANGED <<hdr, oldkey, synced, area, areasync>>
    BY DEF RecoverSegment
  <1>2. CASE /\ IOError
             /\ data' \in CutShort(rh.type, HotZone(rh), Recovered)
             /\ Release
    <2>1. TypeOK
      BY <1>0 DEF Structure
    <2>2. data' \in [Sector -> Content] /\ \A i \in Sector : MayBe(i, data'[i])
      BY <1>1, <1>2, <2>1, CutShortRecover
    <2> QED BY <2>2, <1>1, <1>2, IOErrorStops
  <1> DEFINE d == hdr.direction
             e == After(hdr.direction, rh.offset, rh.length)
  <1>3. /\ rh.recovery /\ ~stale /\ mem = hdr /\ oldkey
        /\ hdr \in Header /\ rh \in Context /\ d \in Direction
        /\ rh.type = hdr.type /\ rh.type \in {"checksum", "journal"}
        /\ rh.offset \in Nat /\ rh.length \in 1..Zone /\ rh.length \in Nat \ {0}
        /\ rh.offset + rh.length <= N
        /\ rh.progress = Before(hdr.direction, rh.offset, Least(Zone, N - rh.offset))
        /\ HotStart(hdr) = rh.offset
        /\ hdr.segs[HotSeg(hdr.segs)].size = rh.length
        /\ HotSeg(hdr.segs) # 0
        /\ \A i \in Sector : KeyOf(hdr.segs, i) = "hot" <=> InZone(rh, i)
    BY <1>0, <1>1, RecoverFacts
  <1>4. ASSUME NEW n \in {0, rh.length}, AfterRecovery(n),
               data' \in [Sector -> Content],
               world' = world, deaths' = deaths, powers' = powers, ioerrs' = ioerrs,
               hasherrs' \in 0..world.hasherrs
        PROVE  /\ Structure'
               /\ mem' \in Header
               /\ mem'.flag = hdr.flag /\ mem'.reencslot = hdr.reencslot
               /\ mem'.oldslot = hdr.oldslot /\ mem'.direction = d
               /\ mem'.segs = Clean(d, e)
               /\ \A i \in Sector :
                     /\ InZone(rh, i) => KeyOf(mem'.segs, i) = "new"
                     /\ ~InZone(rh, i) => KeyOf(mem'.segs, i) = KeyOf(hdr.segs, i)
               /\ rh'.type = rh.type /\ rh'.recovery
               /\ /\ n = rh.length /\ e = N
                  /\ d = "backward" /\ rh.offset = 0 => rh.length = Zone
                  => Finished(rh')
    <2>1. /\ mem' = Assigned(hdr, PostSegs(hdr.direction, hdr.segs))
          /\ rh' = NextContext([rh EXCEPT !.read = n], hdr.direction)
          /\ pc' = "teardown" /\ stale' = stale
      BY <1>3, <1>4 DEF AfterRecovery
    <2>2. /\ mem' \in Header /\ HeaderOK(mem') /\ IsClean(mem')
          /\ mem'.flag = hdr.flag /\ mem'.reencslot = hdr.reencslot
          /\ mem'.oldslot = hdr.oldslot /\ mem'.direction = d
          /\ mem'.segs = Clean(d, e)
          /\ \A i \in Sector :
                /\ InZone(rh, i) => KeyOf(mem'.segs, i) = "new"
                /\ ~InZone(rh, i) => KeyOf(mem'.segs, i) = KeyOf(hdr.segs, i)
      BY <1>0, <1>1, <2>1, RecoverFacts
    <2> HIDE DEF d, e
    <2>3. /\ rh' \in Context /\ rh'.type = rh.type /\ rh'.recovery = rh.recovery
          /\ Finished(rh') => e = N
          /\ /\ n = rh.length /\ e = N
             /\ d = "backward" /\ rh.offset = 0 => rh.length = Zone
             => Finished(rh')
      BY <1>3, <1>4, <2>1, RecoveredContext DEF d, e
    <2>4. TypeOK'
      <3>1. "teardown" \in Steps
        BY DEF Steps
      <3> QED BY <1>0, <1>1, <1>4, <2>1, <2>2, <2>3, <3>1 DEF Structure, TypeOK
    <2>5. LoopPart' /\ StepPart' /\ RecoverPart' /\ EndPart'
      BY <2>1 DEF LoopPart, StepPart, RecoverPart, EndPart, Stepping, Ending
    <2>6. TeardownPart'
      BY <1>3, <2>1, <2>2, <2>3 DEF TeardownPart
    <2>7. DiskPart'
      BY <1>1, <1>3, <2>1, <2>3 DEF DiskPart, Named
    <2>8. Structure'
      BY <1>0, <1>1, <1>3, <2>1, <2>2, <2>3, <2>4, <2>5, <2>6, <2>7 DEF Structure
    <2> QED BY <1>3, <2>2, <2>3, <2>8
  <1>5. CASE /\ rh.type = "checksum"
             /\ hasherrs < world.hasherrs /\ hasherrs' = hasherrs + 1
             /\ data' \in CutShort(rh.type, HotZone(rh), Recovered)
             /\ AfterRecovery(0)
             /\ UNCHANGED <<world, deaths, powers, ioerrs>>
    <2>1. TypeOK
      BY <1>0 DEF Structure
    <2>2. hasherrs' \in 0..world.hasherrs /\ hasherrs' # 0
      BY <1>5, <2>1, WorldFacts
    <2>3. data' \in [Sector -> Content]
      BY <1>1, <1>5, <2>1, CutShortRecover
    <2>4. Structure'
      BY <1>4, <1>5, <2>2, <2>3
    <2> QED BY <2>2, <2>4 DEF ReencryptInv, Handled
  <1>6. CASE /\ data' = Recovered
             /\ AfterRecovery(rh.length)
             /\ UNCHANGED faults
    <2>1. /\ pc' = "teardown" /\ stale' = stale
          /\ UNCHANGED <<world, deaths, powers, ioerrs, hasherrs>>
      BY <1>6 DEF faults, AfterRecovery
    <2>2. /\ data \in [Sector -> Content] /\ hasherrs \in 0..world.hasherrs
      BY <1>0 DEF Structure, TypeOK
    <2>3. /\ data' \in [Sector -> Content]
          /\ \A i \in Sector :
               /\ InZone(rh, i) =>
                    data'[i] = RecoveredSector(rh.type, rh.offset, data, area, i)
               /\ ~InZone(rh, i) => data'[i] = data[i]
      <3>1. \A i \in Sector :
               RecoveredSector(rh.type, rh.offset, data, area, i) \in Content
        BY <2>2 DEF RecoveredSector, Reencrypted, Content
      <3> QED BY <1>6, <2>2, <3>1 DEF Recovered, HotZone, InZone
    <2>4. /\ Structure'
          /\ mem' \in Header
          /\ mem'.flag = hdr.flag /\ mem'.reencslot = hdr.reencslot
          /\ mem'.oldslot = hdr.oldslot /\ mem'.direction = d
          /\ mem'.segs = Clean(d, e)
          /\ \A i \in Sector :
                /\ InZone(rh, i) => KeyOf(mem'.segs, i) = "new"
                /\ ~InZone(rh, i) => KeyOf(mem'.segs, i) = KeyOf(hdr.segs, i)
          /\ rh'.type = rh.type /\ rh'.recovery
          /\ /\ e = N
             /\ d = "backward" /\ rh.offset = 0 => rh.length = Zone
             => Finished(rh')
      BY <1>4, <1>6, <2>1, <2>2, <2>3
    <2> HIDE DEF d, e
    <2>5. ASSUME hasherrs' = 0 PROVE NotOld' /\ Volatile'
      <3>1. NotOld /\ Volatile
        BY <2>5, <1>0, <2>1
      <3>2. ASSUME NEW i \in Sector, data'[i] = "old"
            PROVE  ~InZone(rh, i) /\ data[i] = "old"
        <4>1. CASE InZone(rh, i)
          <5>1. data[i] = "old"
            BY <4>1, <3>2, <2>3 DEF RecoveredSector, Reencrypted
          <5>2. Cell(area, rh.type, rh.offset, i, "old")
            BY <3>1, <4>1, <5>1, <1>3 DEF NotOld, NotOldAt
          <5>3. RecoveredSector(rh.type, rh.offset, data, area, i) = "new"
            BY <5>1, <5>2, <1>3, RecoveredIsNew DEF Content
          <5> QED BY <5>3, <4>1, <3>2, <2>3
        <4>2. CASE ~InZone(rh, i)
          BY <4>2, <3>2, <2>3
        <4> QED BY <4>1, <4>2
      <3>3. \A i \in Sector : NotOldAt(hdr, area, i, data'[i])
        BY <3>1, <3>2 DEF NotOld, NotOldAt
      <3>4. \A i \in Sector : KeyOf(mem'.segs, i) = "new" => data'[i] # "old"
        BY <3>1, <3>2, <2>4, <1>1, <1>3 DEF NotOld
      <3>5. NotOld'
        BY <3>3, <3>4, <1>1, <1>3, <2>1 DEF NotOld
      <3>6. ~(world.volatile # {} /\ powers = 0)
        BY <3>1, <1>3 DEF Volatile
      <3> QED BY <3>5, <3>6, <2>1 DEF Volatile
    <2>6. ASSUME Handled' PROVE Sound'
      <3>1. Sound
        BY <2>6, <1>0, <2>1 DEF Handled
      <3>2. d = "backward" /\ rh.offset = 0 => rh.length = Zone
        BY <3>1, <1>1, <1>3 DEF Sound, WholePart, Whole, d
      <3>3. ~Finished(rh') => ~AllNew(mem')
        <4>1. e \in 0..N
          BY <1>3, HotPassed DEF d, e
        <4>2. e # N => Clean(d, e) # Clean(d, N)
          BY <4>1, <1>3, Sizes, CleanSegments
        <4> QED BY <4>2, <3>2, <2>4 DEF AllNew
      <3>4. KeysPart' /\ WholePart'
        BY <3>1, <3>3, <1>1, <1>3, <2>1, <2>4
           DEF Sound, KeysPart, WholePart, KeysOn, Stepping
      <3>5. ASSUME NEW i \in Sector
            PROVE  /\ DecodableAt(hdr, area, i, data'[i])
                   /\ data'[i] = KeyOf(mem'.segs, i)
        <4>1. DecodableAt(hdr, area, i, data[i])
          BY <3>1, <1>3 DEF Sound, DataPart
        <4>2. CASE InZone(rh, i)
          <5>1. /\ Cell(area, rh.type, rh.offset, i, "old")
                /\ data[i] # "junk" \/ rh.type = "journal"
            BY <4>1, <4>2, <1>3 DEF DecodableAt
          <5>2. data'[i] = "new"
            BY <4>2, <5>1, <1>3, <2>2, <2>3, RecoveredIsNew
          <5> QED BY <4>1, <4>2, <5>2, <1>3, <2>4 DEF DecodableAt
        <4>3. CASE ~InZone(rh, i)
          BY <4>1, <4>3, <1>3, <2>3, <2>4 DEF DecodableAt
        <4> QED BY <4>2, <4>3
      <3>6. DataPart'
        BY <3>5, <1>1, <2>1 DEF DataPart
      <3>7. OrderPart'
        BY <1>1, <1>3, <2>4 DEF OrderPart
      <3> QED BY <3>4, <3>6, <3>7 DEF Sound
    <2> QED BY <2>4, <2>5, <2>6 DEF ReencryptInv
  <1> QED BY <1>2, <1>5, <1>6 DEF RecoverSegment

-----------------------------------------------------------------------------
(* The teardown and the finish                                             *)

(* In the finish all sectors are under the new key, and the faults that    *)
(* the code takes care of are over.                                        *)
LEMMA EndFacts ==
    ASSUME ReencryptInv,
           pc \in Ending \/ (pc = "teardown" /\ Finished(rh))
    PROVE  /\ mem \in Header /\ IsClean(mem) /\ AllNew(mem)
           /\ \A i \in Sector : KeyOf(mem.segs, i) = "new"
           /\ hasherrs = 0 => \A i \in Sector : data[i] # "old"
           /\ Handled => ~IOError /\ ~MayFail
           /\ Handled => \A i \in Sector : data[i] = "new"
  <1>1. Structure /\ (hasherrs = 0 => NotOld /\ Volatile) /\ (Handled => Sound)
    BY DEF ReencryptInv
  <1>2. mem \in Header /\ AllNew(mem) /\ pc # "idle"
    BY <1>1 DEF Structure, TypeOK, EndPart, TeardownPart, AllNew, Ending
  <1>3. IsClean(mem)
    BY <1>2, Sizes DEF AllNew, IsClean
  <1>4. \A i \in Sector : KeyOf(mem.segs, i) = "new"
    BY <1>2, <1>3, CleanHeader
  <1>5. Handled => ~IOError /\ ~MayFail
    <2>1. mem.segs = <<[key |-> "new", size |-> N]>>
      BY <1>2, AllNewSegs
    <2> QED BY <2>1 DEF Handled, IOError, MayFail, Finishing, Ending
  <1> QED BY <1>1, <1>2, <1>3, <1>4, <1>5 DEF NotOld, Sound, DataPart

(* A step of the finish that leaves its process running.                   *)
LEMMA EndStep ==
    ASSUME ReencryptInv,
           pc \in Ending \/ (pc = "teardown" /\ Finished(rh)),
           pc' \in Ending \/ (pc' = "final" /\ rh.recovery),
           mem' \in Header, mem'.segs = mem.segs, mem'.direction = mem.direction,
           hdr' = hdr \/ hdr' = mem',
           oldkey' \in BOOLEAN, stale' \in BOOLEAN, stale' => rh.recovery,
           area' = area \/ (pc = "wipereenc" /\ area' = Wiped),
           areasync' = areasync \/ areasync' = area,
           UNCHANGED <<rh, data, synced, world, deaths, powers, hasherrs>>,
           ioerrs' \in 0..world.ioerrs,
           Handled => KeysPart'
    PROVE  ReencryptInv'
  <1>0. Structure /\ (hasherrs = 0 => NotOld /\ Volatile) /\ (Handled => Sound)
    BY DEF ReencryptInv
  <1>1. /\ mem \in Header /\ AllNew(mem)
        /\ \A i \in Sector : KeyOf(mem.segs, i) = "new"
        /\ hasherrs = 0 => \A i \in Sector : data[i] # "old"
        /\ Handled => \A i \in Sector : data[i] = "new"
    BY EndFacts
  <1>2. /\ mem' \in Header /\ AllNew(mem') /\ IsClean(mem') /\ HeaderOK(mem')
        /\ \A i \in Sector : KeyOf(mem'.segs, i) = "new"
    BY <1>1, Sizes DEF AllNew, IsClean, HeaderOK
  <1>3. /\ TypeOK /\ HeaderOK(hdr) /\ hdr \in Header /\ rh \in Context
        /\ ~rh.recovery => IsClean(hdr) /\ Aligned(rh, mem.direction)
        /\ IsClean(hdr) \/ hdr.type # "none"
        /\ pc # "idle" /\ pc # "sync" /\ pc' # "idle" /\ pc' # "sync"
    BY <1>0 DEF Structure, TypeOK, DiskPart, Named, Ending
  <1>4. /\ HeaderOK(hdr') /\ hdr' \in Header
        /\ ~rh.recovery => IsClean(hdr')
        /\ IsClean(hdr') \/ hdr'.type # "none"
    BY <1>2, <1>3
  <1>5. Structure'
    <2>1. TypeOK'
      <3>1. pc' \in Steps
        BY DEF Ending, Steps
      <3>2. area' \in Area /\ areasync' \in Area
        BY <1>3, WipedOK DEF TypeOK
      <3> QED BY <3>1, <3>2, <1>3, <1>4 DEF TypeOK
    <2>2. LoopPart' /\ StepPart' /\ RecoverPart' /\ TeardownPart'
      BY DEF LoopPart, StepPart, RecoverPart, TeardownPart, Stepping, Ending
    <2>3. EndPart'
      BY <1>2 DEF EndPart, AllNew, Ending
    <2>4. DiskPart'
      BY <1>4 DEF DiskPart, Named, Ending
    <2> QED BY <1>2, <1>3, <1>4, <2>1, <2>2, <2>3, <2>4 DEF Structure
  <1>6. ASSUME hasherrs' = 0 PROVE NotOld' /\ Volatile'
    <2>1. Volatile /\ \A i \in Sector : data[i] # "old"
      BY <1>6, <1>0, <1>1
    <2>2. NotOld'
      BY <2>1 DEF NotOld, NotOldAt, Ending
    <2> QED BY <2>1, <2>2, <1>3 DEF Volatile
  <1>7. ASSUME Handled' PROVE Sound'
    <2>1. Handled /\ Sound /\ KeysPart'
      BY <1>7, <1>0 DEF Handled
    <2>2. WholePart'
      BY <2>1, <1>2, <1>3, CleanHeader DEF Sound, WholePart, Whole
    <2>3. ASSUME rh.type # "none", NEW i \in Sector
          PROVE  DecodableAt(hdr', area', i, data[i])
      <3>1. CASE hdr' = mem'
        BY <3>1, <2>1, <1>1, <1>2, CleanDecodable
      <3>2. CASE hdr' = hdr /\ area' = area
        BY <3>2, <2>1, <2>3 DEF Sound, DataPart
      <3>3. CASE hdr' = hdr /\ pc = "wipereenc"
        <4>1. hdr = mem
          BY <3>3, <2>1 DEF Sound, KeysPart
        <4> QED BY <3>3, <4>1, <2>1, <1>1, EndFacts, CleanDecodable
      <3> QED BY <3>1, <3>2, <3>3
    <2>4. DataPart' /\ OrderPart'
      BY <2>1, <2>3, <1>1, <1>2, <1>3 DEF DataPart, OrderPart, Ending
    <2> QED BY <2>1, <2>2, <2>4 DEF Sound
  <1> QED BY <1>5, <1>6, <1>7 DEF ReencryptInv

LEMMA TeardownInv ==
    ASSUME ReencryptInv, Foreseen, Teardown
    PROVE  ReencryptInv'
  <1>0. Structure /\ (hasherrs = 0 => NotOld /\ Volatile) /\ (Handled => Sound)
    BY DEF ReencryptInv
  <1>1. pc = "teardown" /\ UNCHANGED <<oldkey, data, synced, area>>
    BY DEF Teardown
  <1>2. /\ TypeOK /\ hdr \in Header /\ mem \in Header
        /\ HeaderOK(hdr) /\ HeaderOK(mem)
        /\ ~stale /\ IsClean(mem) /\ oldkey
        /\ rh.recovery => rh.type # "none"
        /\ ~rh.recovery => IsClean(hdr)
        /\ IsClean(hdr) \/ hdr.type # "none"
    BY <1>0, <1>1 DEF Structure, TypeOK, TeardownPart, DiskPart, Named, Ending
  <1>3. CASE rh.type = "none" /\ CommitFails(mem) /\ Release
    <2>1. /\ IOError /\ areasync' = areasync /\ Committing /\ Pending = mem
          /\ hdr' = hdr \/ hdr' = Pending
      BY <1>1, <1>2, <1>3 DEF CommitFails, Committing, Pending
    <2> QED BY <2>1, <1>1, <1>2, <1>3, IOErrorStops, SectorStays DEF TypeOK
  <1>4. CASE /\ IF rh.type = "none" THEN CommitOk(mem)
                ELSE UNCHANGED <<hdr, areasync, faults>>
             /\ \/ Finished(rh) /\ pc' = "wipeold" /\ UNCHANGED <<mem, rh, stale>>
                \/ ~Finished(rh) /\ TornDown
    <2>1. /\ rh.type = "none" => hdr' = mem
          /\ rh.type # "none" => hdr' = hdr
          /\ hdr' = hdr \/ hdr' = mem
          /\ areasync' = areasync \/ areasync' = area
          /\ UNCHANGED <<world, deaths, powers, ioerrs, hasherrs>>
      BY <1>4 DEF CommitOk, faults
    <2>2. ASSUME Handled
          PROVE  /\ Sound /\ KeysOn(hdr) /\ KeysOn(mem) /\ KeysOn(hdr')
                 /\ ~Finished(rh) => ~AllNew(mem)
      BY <2>1, <2>2, <1>0, <1>1 DEF Sound, KeysPart
    <2>3. CASE Finished(rh) /\ pc' = "wipeold" /\ UNCHANGED <<mem, rh, stale>>
      <3>1. Handled => KeysPart'
        BY <2>2, <2>3, <1>1, <1>2 DEF KeysPart, Stepping
      <3>2. /\ "wipeold" \in Ending /\ mem' = mem /\ stale' \in BOOLEAN
            /\ ~stale' /\ oldkey' \in BOOLEAN /\ ioerrs' \in 0..world.ioerrs
        BY <2>1, <2>3, <1>1, <1>2 DEF Ending, TypeOK
      <3> QED BY <3>1, <3>2, <1>1, <1>2, <2>1, <2>3, EndStep
    <2>4. CASE ~Finished(rh) /\ rh.recovery /\ pc' = "final" /\ UNCHANGED <<mem, rh, stale>>
      <3>0. hdr' = hdr /\ rh.type # "none"
        BY <2>1, <2>4, <1>2
      <3>1. Structure'
        <4>1. TypeOK'
          BY <1>1, <1>2, <2>1, <2>4, <3>0 DEF TypeOK, Steps
        <4>2. LoopPart' /\ StepPart' /\ RecoverPart' /\ TeardownPart'
          BY <2>4 DEF LoopPart, StepPart, RecoverPart, TeardownPart, Stepping
        <4>3. EndPart' /\ DiskPart'
          BY <1>1, <1>2, <2>4, <3>0 DEF EndPart, DiskPart, Named, IsClean, Ending
        <4> QED BY <1>2, <2>4, <3>0, <4>1, <4>2, <4>3 DEF Structure
      <3>2. ASSUME hasherrs' = 0 PROVE NotOld' /\ Volatile'
        <4>1. NotOld /\ Volatile
          BY <3>2, <1>0, <2>1
        <4>2. NotOld'
          BY <4>1, <1>1, <2>4, <3>0 DEF NotOld, NotOldAt
        <4>3. Volatile'
          BY <4>1, <1>1, <2>1, <2>4 DEF Volatile
        <4> QED BY <4>2, <4>3
      <3>3. ASSUME Handled' PROVE Sound'
        <4>1. Handled
          BY <3>3, <2>1 DEF Handled
        <4>2. Sound /\ KeysOn(hdr) /\ KeysOn(mem) /\ ~AllNew(mem)
          BY <4>1, <2>2, <2>4
        <4>3. KeysPart' /\ WholePart'
          BY <4>2, <1>1, <1>2, <2>4, <3>0 DEF Sound, KeysPart, WholePart, KeysOn,
                                              AllNew, Stepping
        <4>4. DataPart' /\ OrderPart'
          BY <4>2, <1>1, <2>4, <3>0 DEF Sound, DataPart, OrderPart
        <4> QED BY <4>3, <4>4 DEF Sound
      <3> QED BY <3>1, <3>2, <3>3 DEF ReencryptInv
    <2>5. CASE ~Finished(rh) /\ ~rh.recovery /\ Release
      <3>1. HeaderOK(hdr') /\ IsClean(hdr') /\ hdr' \in Header
        BY <1>2, <2>1, <2>5
      <3>2. ASSUME hasherrs' = 0
            PROVE  /\ \A i \in Sector : NotOldAt(hdr', area', i, data'[i])
                   /\ world'.volatile # {} /\ powers' = 0 => synced' = data'
        <4>1. NotOld /\ Volatile
          BY <3>2, <1>0, <2>1
        <4>2. ASSUME NEW i \in Sector PROVE NotOldAt(hdr', area', i, data'[i])
          <5>1. KeyOf(hdr'.segs, i) = "new" => data[i] # "old"
            BY <4>1, <1>1, <2>1 DEF NotOld, NotOldAt
          <5> QED BY <5>1, <1>1, <3>1, CleanNotOld
        <4> QED BY <4>1, <4>2, <1>1, <2>1 DEF Volatile
      <3>3. ASSUME Handled'
            PROVE  /\ KeysOn(hdr') /\ oldkey' /\ ~AllNew(hdr')
                   /\ Whole(hdr')
                   /\ \A i \in Sector : DecodableAt(hdr', area', i, data'[i])
        <4>1. Handled
          BY <3>3, <2>1 DEF Handled
        <4>2. Sound /\ KeysOn(hdr') /\ ~AllNew(mem)
          BY <4>1, <2>2, <2>5
        <4>3. ~AllNew(hdr)
          BY <4>2, <1>0, <1>1, NotYetNew DEF Sound
        <4>4. Whole(hdr')
          BY <3>1, CleanHeader DEF Whole
        <4>5. ASSUME NEW i \in Sector PROVE DecodableAt(hdr', area', i, data'[i])
          <5>1. CASE rh.type = "none"
            <6>1. KeyOf(mem.segs, i) # "hot"
              BY <1>2, CleanHeader
            <6>2. data[i] = KeyOf(mem.segs, i)
              BY <6>1, <4>2, <1>1 DEF Sound, DataPart
            <6> QED BY <5>1, <6>2, <1>1, <2>1, <3>1, CleanDecodable
          <5>2. CASE rh.type # "none"
            BY <5>2, <4>2, <1>1, <2>1 DEF Sound, DataPart
          <5> QED BY <5>1, <5>2
        <4> QED BY <1>1, <1>2, <2>1, <4>2, <4>3, <4>4, <4>5
      <3>4. /\ oldkey' \in BOOLEAN
            /\ data' \in [Sector -> Content] /\ synced' \in [Sector -> Content]
            /\ area' \in Area /\ areasync' \in Area /\ world' \in Worlds
            /\ deaths' \in 0..world'.deaths /\ powers' \in 0..world'.powers
            /\ ioerrs' \in 0..world'.ioerrs /\ hasherrs' \in 0..world'.hasherrs
        BY <1>1, <1>2, <2>1 DEF TypeOK
      <3> QED BY <1>1, <1>2, <2>5, <3>1, <3>2, <3>3, <3>4, AtRest
    <2> QED BY <1>4, <2>3, <2>4, <2>5 DEF TornDown
  <1> QED BY <1>3, <1>4 DEF Teardown

(* The bound of the I/O errors after one more.                             *)
LEMMA IOErrorCounts ==
    ASSUME TypeOK, IOError
    PROVE  /\ ioerrs' \in 0..world.ioerrs
           /\ UNCHANGED <<world, deaths, powers, hasherrs>>
  BY WorldFacts DEF IOError

LEMMA WipeOldInv ==
    ASSUME ReencryptInv, WipeOld
    PROVE  ReencryptInv'
  <1>0. Structure /\ (Handled => Sound)
    BY DEF ReencryptInv
  <1>1. /\ pc = "wipeold" /\ pc \in Ending
        /\ UNCHANGED <<hdr, data, synced, area, areasync, mem, rh, stale>>
    BY DEF WipeOld, Ending
  <1>2. TypeOK /\ mem \in Header /\ stale \in BOOLEAN /\ (stale => rh.recovery)
    BY <1>0 DEF Structure, TypeOK, DiskPart
  <1>3. /\ pc' \in Ending /\ oldkey' \in BOOLEAN /\ ioerrs' \in 0..world.ioerrs
        /\ UNCHANGED <<world, deaths, powers, hasherrs>>
    BY <1>2, IOErrorCounts DEF WipeOld, Ending, TypeOK, faults
  <1>4. ASSUME Handled PROVE KeysPart'
    <2>1. pc' = "dropold" /\ ~stale
      BY <1>0, <1>1, <1>4, EndFacts DEF WipeOld, Sound, KeysPart
    <2> QED BY <1>1, <2>1 DEF KeysPart, Stepping
  <1> QED BY <1>1, <1>2, <1>3, <1>4, EndStep

(* A commit of the finish whose failure is ignored.                        *)
LEMMA CommitEnds ==
    ASSUME TypeOK, NEW m,
           \/ CommitOk(m) /\ stale' = stale
           \/ CommitFails(m) /\ stale' = (rh.recovery /\ hdr' = hdr)
    PROVE  /\ hdr' = hdr \/ hdr' = m
           /\ areasync' = areasync \/ areasync' = area
           /\ ioerrs' \in 0..world.ioerrs
           /\ UNCHANGED <<world, deaths, powers, hasherrs>>
           /\ stale' => stale \/ rh.recovery
           /\ stale' \in BOOLEAN
           /\ ~stale /\ ~IOError => hdr' = m /\ ~stale'
  <1>1. rh.recovery \in BOOLEAN
    BY DEF TypeOK, Context
  <1> QED BY <1>1, IOErrorCounts DEF CommitOk, CommitFails, faults, TypeOK

LEMMA DropOldInv ==
    ASSUME ReencryptInv, DropOld
    PROVE  ReencryptInv'
  <1>0. Structure /\ (Handled => Sound)
    BY DEF ReencryptInv
  <1>1. /\ pc = "dropold" /\ pc \in Ending /\ pc' = "wipereenc" /\ pc' \in Ending
        /\ UNCHANGED <<oldkey, data, synced, area, rh>>
        /\ mem' = [mem EXCEPT !.oldslot = FALSE] /\ mem' = Pending
    BY DEF DropOld, Pending, Ending
  <1>2. TypeOK /\ mem \in Header /\ oldkey \in BOOLEAN /\ (stale => rh.recovery)
    BY <1>0 DEF Structure, TypeOK, DiskPart
  <1>3. /\ hdr' = hdr \/ hdr' = mem'
        /\ areasync' = areasync \/ areasync' = area
        /\ ioerrs' \in 0..world.ioerrs
        /\ UNCHANGED <<world, deaths, powers, hasherrs>>
        /\ stale' => rh.recovery
        /\ stale' \in BOOLEAN
        /\ ~stale /\ ~IOError => hdr' = mem' /\ ~stale'
    BY <1>1, <1>2, CommitEnds DEF DropOld
  <1>4. mem' \in Header /\ mem'.segs = mem.segs /\ mem'.direction = mem.direction
    BY <1>1, <1>2 DEF Header
  <1>5. ASSUME Handled PROVE KeysPart'
    <2>1. ~stale /\ ~IOError
      BY <1>0, <1>1, <1>5, EndFacts DEF Sound, KeysPart
    <2> QED BY <1>1, <1>3, <2>1 DEF KeysPart, Stepping
  <1> QED BY <1>1, <1>2, <1>3, <1>4, <1>5, EndStep

LEMMA WipeReencInv ==
    ASSUME ReencryptInv, WipeReenc
    PROVE  ReencryptInv'
  <1>0. Structure /\ (Handled => Sound)
    BY DEF ReencryptInv
  <1>1. /\ pc = "wipereenc" /\ pc \in Ending
        /\ UNCHANGED <<hdr, oldkey, data, synced, areasync, mem, rh, stale>>
    BY DEF WipeReenc, Ending
  <1>2. /\ TypeOK /\ mem \in Header /\ oldkey \in BOOLEAN /\ stale \in BOOLEAN
        /\ stale => rh.recovery
    BY <1>0 DEF Structure, TypeOK, DiskPart
  <1>3. /\ pc' \in Ending /\ area' \in {area, Wiped} /\ ioerrs' \in 0..world.ioerrs
        /\ UNCHANGED <<world, deaths, powers, hasherrs>>
    BY <1>2, IOErrorCounts DEF WipeReenc, Ending, TypeOK, faults
  <1>4. ASSUME Handled PROVE KeysPart'
    <2>1. ~stale /\ hdr = mem
      BY <1>0, <1>1, <1>4 DEF Sound, KeysPart
    <2>2. pc' = "dropreenc"
      BY <2>1, <1>1, <1>4, EndFacts DEF WipeReenc
    <2> QED BY <1>1, <2>1, <2>2 DEF KeysPart, Stepping
  <1> QED BY <1>1, <1>2, <1>3, <1>4, EndStep

LEMMA DropReencInv ==
    ASSUME ReencryptInv, DropReenc
    PROVE  ReencryptInv'
  <1>0. Structure /\ (Handled => Sound)
    BY DEF ReencryptInv
  <1>1. /\ pc = "dropreenc" /\ pc \in Ending /\ pc' = "unflag" /\ pc' \in Ending
        /\ UNCHANGED <<oldkey, data, synced, area, rh>>
        /\ mem' = [mem EXCEPT !.reencslot = FALSE] /\ mem' = Pending
    BY DEF DropReenc, Pending, Ending
  <1>2. TypeOK /\ mem \in Header /\ oldkey \in BOOLEAN /\ (stale => rh.recovery)
    BY <1>0 DEF Structure, TypeOK, DiskPart
  <1>3. /\ hdr' = hdr \/ hdr' = mem'
        /\ areasync' = areasync \/ areasync' = area
        /\ ioerrs' \in 0..world.ioerrs
        /\ UNCHANGED <<world, deaths, powers, hasherrs>>
        /\ stale' => rh.recovery
        /\ stale' \in BOOLEAN
        /\ ~stale /\ ~IOError => hdr' = mem' /\ ~stale'
    BY <1>1, <1>2, CommitEnds DEF DropReenc
  <1>4. mem' \in Header /\ mem'.segs = mem.segs /\ mem'.direction = mem.direction
    BY <1>1, <1>2 DEF Header
  <1>5. ASSUME Handled PROVE KeysPart'
    <2>1. ~stale /\ ~IOError
      BY <1>0, <1>1, <1>5, EndFacts DEF Sound, KeysPart
    <2> QED BY <1>1, <1>3, <2>1 DEF KeysPart, Stepping
  <1> QED BY <1>1, <1>2, <1>3, <1>4, <1>5, EndStep

LEMMA UnflagInv ==
    ASSUME ReencryptInv, Foreseen, Unflag
    PROVE  ReencryptInv'
  <1>0. Structure /\ (hasherrs = 0 => NotOld /\ Volatile) /\ (Handled => Sound)
    BY DEF ReencryptInv
  <1> DEFINE m == [mem EXCEPT !.flag = FALSE]
  <1>1. /\ pc = "unflag" /\ pc \in Ending /\ Pending = m /\ Committing
        /\ UNCHANGED <<oldkey, data, synced, area>>
        /\ CommitOk(m) \/ CommitFails(m)
    BY DEF Unflag, Pending, Ending, Committing
  <1>2. /\ TypeOK /\ mem \in Header /\ oldkey \in BOOLEAN
        /\ data \in [Sector -> Content] /\ synced \in [Sector -> Content]
        /\ stale => rh.recovery
    BY <1>0 DEF Structure, TypeOK, DiskPart
  <1>3. /\ m \in Header /\ m.segs = mem.segs /\ m.direction = mem.direction
        /\ m.flag = FALSE
    BY <1>2 DEF Header
  <1>4. /\ hdr' = hdr \/ hdr' = m
        /\ areasync' = areasync \/ areasync' = area
        /\ ioerrs' \in 0..world.ioerrs
        /\ UNCHANGED <<world, deaths, powers, hasherrs>>
        /\ ~stale /\ ~IOError => hdr' = m
    BY <1>1, <1>2, IOErrorCounts DEF CommitOk, CommitFails, faults, TypeOK
  <1> HIDE DEF m
  <1>5. CASE /\ rh.recovery /\ pc' = "final" /\ mem' = m /\ rh' = rh
             /\ stale' = (hdr' # m)
    <2>1. ASSUME Handled PROVE KeysPart'
      <3>1. ~stale /\ ~IOError /\ AllNew(mem)
        BY <1>0, <1>1, <2>1, EndFacts DEF Sound, KeysPart
      <3> QED BY <1>3, <1>4, <1>5, <3>1 DEF KeysPart, Stepping, AllNew
    <2> QED BY <1>1, <1>2, <1>3, <1>4, <1>5, <2>1, EndStep
  <1>6. CASE ~rh.recovery /\ Release
    <2>1. CASE CommitFails(m)
      <3>1. IOError /\ areasync' = areasync
        BY <1>2, <1>6, <2>1 DEF CommitFails
      <3> QED BY <3>1, <1>1, <1>2, <1>4, <1>6, IOErrorStops, SectorStays
    <2>2. CASE CommitOk(m)
      <3>1. /\ hdr' = m /\ mem \in Header /\ AllNew(mem)
            /\ hasherrs = 0 => \A i \in Sector : data[i] # "old"
            /\ Handled => \A i \in Sector : data[i] = "new"
        BY <1>1, <2>2, EndFacts DEF CommitOk
      <3>2. hdr' \in Header /\ AllNew(hdr') /\ IsClean(hdr') /\ HeaderOK(hdr')
        BY <3>1, <1>3, Sizes DEF AllNew, IsClean, HeaderOK
      <3>3. /\ \A i \in Sector : KeyOf(hdr'.segs, i) = "new"
            /\ HotSeg(hdr'.segs) = 0
        BY <3>2, CleanHeader
      <3>4. ASSUME hasherrs' = 0
            PROVE  /\ \A i \in Sector : NotOldAt(hdr', area', i, data'[i])
                   /\ \A i \in Sector : data'[i] # "old"
                   /\ world'.volatile # {} /\ powers' = 0 => synced' = data'
        <4>1. Volatile /\ \A i \in Sector : data[i] # "old"
          BY <3>4, <1>0, <1>4, <3>1
        <4> QED BY <4>1, <1>1, <1>4 DEF NotOldAt, Volatile
      <3>5. ASSUME Handled'
            PROVE  /\ ~hdr'.flag /\ AllNew(hdr')
                   /\ Whole(hdr')
                   /\ \A i \in Sector : DecodableAt(hdr', area', i, data'[i])
        <4>1. \A i \in Sector : data'[i] = "new"
          BY <3>5, <1>1, <1>4, <3>1 DEF Handled
        <4> QED BY <4>1, <1>3, <3>1, <3>2, <3>3 DEF Whole, DecodableAt
      <3>6. /\ oldkey' \in BOOLEAN
            /\ data' \in [Sector -> Content] /\ synced' \in [Sector -> Content]
            /\ area' \in Area /\ areasync' \in Area /\ world' \in Worlds
            /\ deaths' \in 0..world'.deaths /\ powers' \in 0..world'.powers
            /\ ioerrs' \in 0..world'.ioerrs /\ hasherrs' \in 0..world'.hasherrs
        BY <1>1, <1>2, <1>4 DEF TypeOK
      <3> QED BY <1>6, <3>2, <3>4, <3>5, <3>6, AtRest
    <2> QED BY <1>1, <2>1, <2>2
  <1> QED BY <1>1, <1>5, <1>6 DEF Unflag

LEMMA FinalWriteInv ==
    ASSUME ReencryptInv, Foreseen, FinalWrite
    PROVE  ReencryptInv'
  <1>0. Structure /\ (hasherrs = 0 => NotOld /\ Volatile) /\ (Handled => Sound)
    BY DEF ReencryptInv
  <1>1. /\ pc = "final" /\ Release /\ Pending = mem /\ Committing
        /\ UNCHANGED <<oldkey, data, synced, area>>
        /\ CommitOk(mem) \/ CommitFails(mem)
    BY DEF FinalWrite, Pending, Committing
  <1>2. /\ TypeOK /\ mem \in Header /\ HeaderOK(mem) /\ IsClean(mem) /\ rh.recovery
        /\ data \in [Sector -> Content] /\ synced \in [Sector -> Content]
    BY <1>0, <1>1 DEF Structure, TypeOK, EndPart
  <1>3. world.volatile # {} /\ hasherrs = 0 => powers # 0
    BY <1>0, <1>2 DEF Volatile
  <1>4. CASE stale /\ CommitFails(mem)
    <2>1. Stop
      BY <1>1, <1>2, <1>3, <1>4, SectorStays DEF Stop, CommitFails, TypeOK, faults
    <2> QED BY <2>1, StopInv
  <1>5. CASE ~stale /\ CommitFails(mem)
    <2>1. IOError /\ areasync' = areasync /\ (hdr' = hdr \/ hdr' = Pending)
      BY <1>1, <1>5 DEF CommitFails
    <2> QED BY <2>1, <1>1, <1>2, IOErrorStops, SectorStays
  <1>6. CASE CommitOk(mem)
    <2>1. /\ hdr' = mem /\ areasync' = area
          /\ UNCHANGED <<world, deaths, powers, ioerrs, hasherrs>>
      BY <1>6 DEF CommitOk, faults
    <2>2. ASSUME hasherrs' = 0
          PROVE  /\ \A i \in Sector : NotOldAt(hdr', area', i, data'[i])
                 /\ ~oldkey' => \A i \in Sector : data'[i] # "old"
                 /\ ~(world'.volatile # {} /\ powers' = 0)
      <3>1. NotOld
        BY <2>2, <1>0, <2>1
      <3>2. \A i \in Sector : KeyOf(mem.segs, i) = "new" => data[i] # "old"
        BY <3>1, <1>1 DEF NotOld
      <3>3. \A i \in Sector : NotOldAt(hdr', area', i, data'[i])
        BY <3>2, <1>1, <1>2, <2>1, CleanNotOld
      <3> QED BY <3>1, <3>3, <2>1, <2>2, <1>1, <1>3 DEF NotOld
    <2>3. ASSUME Handled'
          PROVE  /\ \/ KeysOn(hdr') /\ oldkey' /\ ~AllNew(hdr')
                    \/ ~hdr'.flag /\ AllNew(hdr')
                 /\ Whole(hdr')
                 /\ \A i \in Sector : DecodableAt(hdr', area', i, data'[i])
      <3>1. Sound
        BY <2>3, <1>0, <2>1 DEF Handled
      <3>2. HotSeg(mem.segs) = 0 /\ \A i \in Sector : KeyOf(mem.segs, i) # "hot"
        BY <1>2, CleanHeader
      <3>3. \A i \in Sector : data[i] = KeyOf(mem.segs, i)
        BY <3>1, <3>2, <1>1 DEF Sound, DataPart
      <3>4. \/ KeysOn(hdr') /\ oldkey' /\ ~AllNew(hdr')
            \/ ~hdr'.flag /\ AllNew(hdr')
        BY <3>1, <1>1, <2>1 DEF Sound, KeysPart
      <3> QED BY <3>2, <3>3, <3>4, <1>1, <2>1 DEF Whole, DecodableAt
    <2>4. /\ oldkey' \in BOOLEAN
          /\ data' \in [Sector -> Content] /\ synced' \in [Sector -> Content]
          /\ area' \in Area /\ areasync' \in Area /\ world' \in Worlds
          /\ deaths' \in 0..world'.deaths /\ powers' \in 0..world'.powers
          /\ ioerrs' \in 0..world'.ioerrs /\ hasherrs' \in 0..world'.hasherrs
      BY <1>1, <1>2, <2>1 DEF TypeOK
    <2> QED BY <1>1, <1>2, <2>1, <2>2, <2>3, <2>4, AtRest
  <1> QED BY <1>1, <1>4, <1>5, <1>6

-----------------------------------------------------------------------------
(* All steps                                                               *)

LEMMA StutterInv ==
    ASSUME ReencryptInv, UNCHANGED vars
    PROVE  ReencryptInv'
  <1>1. UNCHANGED <<hdr, oldkey, data, synced, area, areasync, pc, mem, rh, stale,
                    world, deaths, powers, ioerrs, hasherrs>>
    BY DEF vars
  <1>2. TypeOK' = TypeOK
    BY <1>1 DEF TypeOK
  <1>3. /\ LoopPart' = LoopPart /\ StepPart' = StepPart /\ RecoverPart' = RecoverPart
        /\ TeardownPart' = TeardownPart /\ EndPart' = EndPart /\ DiskPart' = DiskPart
    BY <1>1 DEF LoopPart, StepPart, RecoverPart, TeardownPart, EndPart, DiskPart, Named
  <1>4. Structure' = Structure
    BY <1>1, <1>2, <1>3 DEF Structure
  <1>5. Handled' = Handled
    BY <1>1 DEF Handled
  <1>6. NotOld' = NotOld /\ Volatile' = Volatile
    BY <1>1, <1>5 DEF NotOld, Volatile
  <1>7. /\ KeysPart' = KeysPart /\ WholePart' = WholePart
        /\ DataPart' = DataPart /\ OrderPart' = OrderPart
    BY <1>1 DEF KeysPart, WholePart, DataPart, OrderPart
  <1> QED BY <1>1, <1>4, <1>5, <1>6, <1>7 DEF ReencryptInv, Sound

LEMMA StepInv ==
    ASSUME ReencryptInv, Foreseen, [Next]_vars
    PROVE  ReencryptInv'
  <1>1. ASSUME NEW d \in world.directions, InitReencrypt(d) PROVE ReencryptInv'
    BY <1>1, InitReencryptInv
  <1>2. CASE Resume
    BY <1>2, LoadReencryptInv DEF Resume
  <1>3. CASE LoadCrashed
    BY <1>3, LoadCrashedInv
  <1>4. CASE Die \/ PowerFailure
    BY <1>4, DieInv, PowerFailureInv
  <1>5. CASE Proceed
    <2>1. CASE StepBegin \/ LoopEnds \/ ReadHotzone \/ StoreArea \/ CommitHot
      BY <2>1, StepBeginInv, LoopEndsInv, ReadHotzoneInv, StoreAreaInv, CommitHotInv
    <2>2. CASE WriteHotzone \/ Datasync \/ CommitPost \/ RecoverSegment
      BY <2>2, WriteHotzoneInv, DatasyncInv, CommitPostInv, RecoverSegmentInv
    <2>3. CASE Teardown \/ WipeOld \/ DropOld \/ WipeReenc
      BY <2>3, TeardownInv, WipeOldInv, DropOldInv, WipeReencInv
    <2>4. CASE DropReenc \/ Unflag \/ FinalWrite
      BY <2>4, DropReencInv, UnflagInv, FinalWriteInv
    <2> QED BY <1>5, <2>1, <2>2, <2>3, <2>4 DEF Proceed
  <1>6. CASE UNCHANGED vars
    BY <1>6, StutterInv
  <1> QED BY <1>1, <1>2, <1>3, <1>4, <1>5, <1>6 DEF Next

LEMMA ReencryptInvariant == Foreseen /\ Spec => []ReencryptInv
  <1>1. Init => ReencryptInv
    BY InitInv
  <1>2. Foreseen /\ ReencryptInv /\ [Next]_vars => ReencryptInv'
    BY StepInv
  <1>3. Foreseen => Foreseen'
    BY DEF Foreseen
  <1> QED BY <1>1, <1>2, <1>3, PTL DEF Spec

(* Whatever the size of the device, the length of the hotzones and the     *)
(* number of crashes, interruptions and failed writes, every sector can be *)
(* decrypted with the key that the committed header names for it, a sector *)
(* of the hotzone after the recovery (reencrypt_step,                      *)
(* reencrypt_recover_segment).                                             *)
THEOREM ReencryptKeepsData == Foreseen /\ Spec => []DataKept
  <1>1. ReencryptInv => DataKept
    <2> SUFFICES ASSUME ReencryptInv, Handled, pc = "idle" \/ rh.type # "none"
                 PROVE  Decodable
      BY DEF DataKept, RecoveryKeepsData
    <2>1. Structure /\ Sound
      BY DEF ReencryptInv
    <2>2. hdr \in Header /\ data \in [Sector -> Content]
      BY <2>1 DEF Structure, TypeOK
    <2>3. ASSUME NEW i \in Sector
          PROVE  IF KeyOf(hdr.segs, i) = "hot"
                 THEN RecoveredSector(hdr.type, HotStart(hdr), data, area, i) = "new"
                 ELSE data[i] = KeyOf(hdr.segs, i)
      <3>1. DecodableAt(hdr, area, i, data[i])
        BY <2>1 DEF Sound, DataPart
      <3>2. CASE KeyOf(hdr.segs, i) = "hot"
        <4>1. ~IsClean(hdr)
          BY <3>2, <2>2, CleanHeader
        <4>2. hdr.type \in {"checksum", "journal"}
          BY <4>1, <2>1, <2>2 DEF Structure, DiskPart, Header
        <4>3. /\ Cell(area, hdr.type, HotStart(hdr), i, "old")
              /\ data[i] # "junk" \/ hdr.type = "journal"
          BY <3>1, <3>2 DEF DecodableAt
        <4> QED BY <3>2, <4>2, <4>3, <2>2, RecoveredIsNew
      <3>3. CASE KeyOf(hdr.segs, i) # "hot"
        BY <3>1, <3>3 DEF DecodableAt
      <3> QED BY <3>2, <3>3
    <2> QED BY <2>3 DEF Decodable, HotStart
  <1> QED BY <1>1, ReencryptInvariant, PTL

(* Every offset, length and progress stays in its range; the keyslots that *)
(* the header needs are there whenever no process works on the device; and *)
(* the old key is wiped only when no sector is left under it, in the       *)
(* finish (reencrypt_teardown_ok) as well as after any of its failures.    *)
THEOREM ReencryptKeepsKeys == Foreseen /\ Spec => []KeysInOrder
  <1>1. ReencryptInv => KeysInOrder
    <2> SUFFICES ASSUME ReencryptInv PROVE KeysInOrder
      OBVIOUS
    <2>1. Structure /\ (hasherrs = 0 => NotOld) /\ (Handled => Sound)
      BY DEF ReencryptInv
    <2>2. TypeOK /\ hdr \in Header
      BY <2>1 DEF Structure, TypeOK
    <2>3. ASSUME Handled, pc = "idle", NEW k \in DOMAIN hdr.segs, hdr.segs[k].key # "new"
          PROVE  hdr.oldslot /\ oldkey /\ (hdr.flag => hdr.reencslot)
      <3>1. \/ hdr = Formatted /\ oldkey
            \/ KeysOn(hdr) /\ oldkey /\ ~AllNew(hdr)
            \/ ~hdr.flag /\ AllNew(hdr)
        BY <2>1, <2>3 DEF Sound, KeysPart
      <3>2. ~AllNew(hdr)
        <4>1. SUFFICES ASSUME AllNew(hdr) PROVE FALSE
          OBVIOUS
        <4>2. hdr.segs = <<[key |-> "new", size |-> N]>>
          BY <4>1, <2>2, AllNewSegs
        <4>3. k = 1 /\ hdr.segs[k].key = "new"
          BY <2>3, <4>2
        <4> QED BY <4>3, <2>3
      <3> QED BY <3>1, <3>2 DEF KeysOn, Formatted
    <2>4. KeysKept
      BY <2>3 DEF KeysKept
    <2>5. OldKeyWipedLast
      BY <2>1 DEF OldKeyWipedLast, NotOld
    <2> QED BY <2>2, <2>4, <2>5 DEF KeysInOrder
  <1> QED BY <1>1, ReencryptInvariant, PTL

(* The header changes only by the start of a run and by the commit of the  *)
(* header that is pending.                                                 *)
LEMMA HeaderSteps ==
    ASSUME ReencryptInv, Next
    PROVE  \/ hdr' = hdr
           \/ hdr'.segs = hdr.segs /\ hdr'.flag
           \/ Committing /\ hdr' = Pending /\ (data' = data \/ MayFail)
  <1>0. Structure
    BY DEF ReencryptInv
  <1>1. ASSUME NEW d \in world.directions, InitReencrypt(d)
        PROVE  hdr'.segs = hdr.segs /\ hdr'.flag
    BY <1>1 DEF InitReencrypt, Formatted
  <1>2. CASE Resume \/ LoadCrashed \/ Die
    BY <1>2 DEF Resume, LoadReencrypt, LoadCrashed, Die
  <1>3. CASE PowerFailure
    BY <1>3 DEF PowerFailure
  <1>4. CASE \/ StepBegin \/ LoopEnds \/ ReadHotzone \/ StoreArea \/ WriteHotzone
             \/ Datasync \/ RecoverSegment \/ WipeOld \/ WipeReenc
    BY <1>4 DEF StepBegin, LoopEnds, ReadHotzone, StoreArea, WriteHotzone, Datasync,
                RecoverSegment, WipeOld, WipeReenc
  <1>5. CASE CommitHot
    BY <1>5 DEF CommitHot, CommitOk, CommitFails, Committing, Pending
  <1>6. CASE CommitPost
    BY <1>6 DEF CommitPost, CommitOk, CommitFails, Committing
  <1>7. CASE Teardown
    BY <1>7 DEF Teardown, CommitOk, CommitFails, Committing, Pending
  <1>8. CASE DropOld \/ DropReenc \/ Unflag
    BY <1>8 DEF DropOld, DropReenc, Unflag, CommitOk, CommitFails, Committing
  <1>9. CASE FinalWrite
    BY <1>9 DEF FinalWrite, CommitOk, CommitFails, Committing, Pending
  <1> QED BY <1>1, <1>2, <1>3, <1>4, <1>5, <1>6, <1>7, <1>8, <1>9 DEF Next, Proceed

(* What the pending header has under the new key.                          *)
LEMMA PendingKeys ==
    ASSUME Structure, Committing, NEW i \in Sector, KeyOf(mem.segs, i) = "new"
    PROVE  KeyOf(Pending.segs, i) = "new"
  <1>1. CASE pc = "hot"
    BY <1>1, PendingOK
  <1>2. CASE pc = "post"
    <2>1. /\ mem \in Header /\ rh \in Context /\ mem.direction \in Direction
          /\ Aligned(rh, mem.direction) /\ rh.progress < N
          /\ KeyOf(mem.segs, i) = "hot" <=> InZone(rh, i)
          /\ ~InZone(rh, i) =>
                KeyOf(mem.segs, i) = IF Passed(mem.direction, rh.progress, i)
                                     THEN "new" ELSE "old"
      BY <1>2, SteppingKeys DEF Stepping
    <2>2. Passed(mem.direction, rh.progress, i)
      BY <2>1
    <2>3. /\ rh.progress + rh.length \in 0..N
          /\ Passed(mem.direction, rh.progress + rh.length, i)
      BY <2>1, <2>2, ZonePassed
    <2>4. Pending.segs = Clean(mem.direction, rh.progress + rh.length)
      BY <1>2, <2>1, <2>3, PendingOK, AssignedClean
    <2> QED BY <2>1, <2>3, <2>4, CleanSegments
  <1>3. CASE pc \notin {"hot", "post"}
    BY <1>3, PendingOK
  <1> QED BY <1>1, <1>2, <1>3

(* A sector that a committed header has under the new key never goes back, *)
(* and the requirement flag goes only when all sectors are there.          *)
THEOREM ReencryptGoesForward == Foreseen /\ Spec => ProgressKept
  <1> DEFINE Forward ==
        Handled =>
         /\ \A i \in Sector : KeyOf(hdr.segs, i) = "new" => KeyOf(hdr'.segs, i) = "new"
         /\ hdr.flag /\ ~hdr'.flag => \A i \in Sector : data'[i] = "new"
  <1>1. ReencryptInv /\ [Next]_vars => [Forward]_vars
    <2> SUFFICES ASSUME ReencryptInv, Next, Handled
                 PROVE  /\ \A i \in Sector :
                             KeyOf(hdr.segs, i) = "new" => KeyOf(hdr'.segs, i) = "new"
                        /\ hdr.flag /\ ~hdr'.flag => \A i \in Sector : data'[i] = "new"
      OBVIOUS
    <2>1. Structure /\ Sound
      BY DEF ReencryptInv
    <2>2. CASE hdr' = hdr
      BY <2>2
    <2>3. CASE hdr'.segs = hdr.segs /\ hdr'.flag
      BY <2>3
    <2>4. CASE Committing /\ hdr' = Pending /\ (data' = data \/ MayFail)
      <3>1. pc # "idle"
        BY <2>4 DEF Committing
      <3>2. \A i \in Sector : KeyOf(hdr.segs, i) = "new" => KeyOf(hdr'.segs, i) = "new"
        BY <2>1, <2>4, <3>1, PendingKeys DEF Sound, OrderPart
      <3>3. ASSUME hdr.flag, ~hdr'.flag PROVE \A i \in Sector : data'[i] = "new"
        <4>0. mem \in Header
          BY <2>1 DEF Structure, TypeOK
        <4>1. CASE pc \in Ending
          BY <4>1, <2>4, EndFacts
        <4>2. CASE pc \notin Ending
          <5>1. Pending.flag = mem.flag
            BY <4>0, <4>2, <2>4 DEF Committing, Pending, Assigned, Header, Ending
          <5>2. mem.flag
            BY <5>1, <4>2, <3>3, <2>1, <2>4 DEF Sound, KeysPart, KeysOn, Committing,
                                               Stepping, Ending
          <5> QED BY <5>1, <5>2, <3>3, <2>4
        <4> QED BY <4>1, <4>2
      <3> QED BY <3>2, <3>3
    <2> QED BY <2>2, <2>3, <2>4, HeaderSteps
  <1> QED BY <1>1, ReencryptInvariant, PTL DEF Spec, ProgressKept
=============================================================================
