------------------------ MODULE OnlineReencryptProofs ------------------------
(***************************************************************************)
(* An online reencryption keeps what applications see and write, for every *)
(* device, length of hotzones, direction and number of faults and deaths,  *)
(* proved from the inductive invariant OnlineInv.                          *)
(*                                                                         *)
(* The argument: I/O passes at most three devices, `name', the overlay and *)
(* the hotzone device.  NamePart says that `name' has the table of the     *)
(* header's segments, or that it maps the overlay; then every target of    *)
(* the overlay is either the data device with the key that the header has  *)
(* for the sector, or the hotzone device, and that one stops all I/O from  *)
(* before the hotzone is read until its new segment is committed           *)
(* (OverlayFine, HotzonePart).  So no application reaches a sector that    *)
(* the process has read and not yet committed (Routed), and the buffer,    *)
(* the area and the device keep telling the same (HdrPart).                *)
(***************************************************************************)
EXTENDS OnlineReencrypt, TLAPS

(* The steps of the reencrypting process: building the stack, putting a    *)
(* hotzone on the overlay, reencrypting it, and all those with `name' on   *)
(* the overlay.                                                            *)
Early == {"create hotzone", "create overlay", "load name", "switch name"}
Refresh == {"suspend overlay", "suspend hotzone", "resume overlay"}
Busy == {"read", "commit hot", "write"}
Stacked == {"next", "resume hotzone", "reload name", "resume name"} \cup Refresh \cup Busy
Steps == {"idle", "remove helpers"} \cup Early \cup Stacked

(* The tables that a device may have, and the devices. A table that is not *)
(* there, or an error table, has no targets.                               *)
DevTables ==
    [over : SUBSET {"data", "overlay", "hotzone"},
     what : {"none", "error"} \cup
            [Sector -> [dev : {"data", "overlay", "hotzone"}, key : {"none", "old", "new"}]]]
Devices == [live : DevTables, load : DevTables, susp : BOOLEAN]
IsStack(d) == DOMAIN d \subseteq {"name", "overlay", "hotzone"} /\ d \in [DOMAIN d -> Devices]

(* The devices that the live table and the loaded one of n refer to.       *)
Maps(d, n) == d[n].live.over \cup d[n].load.over

(* Tables map downwards only.                                              *)
Downward(d) ==
    /\ "overlay" \in DOMAIN d => Maps(d, "overlay") \subseteq {"data", "hotzone"}
    /\ "hotzone" \in DOMAIN d => Maps(d, "hotzone") \subseteq {"data"}

(* The types that the type invariant of the specification leaves out.      *)
TypePart ==
    /\ pc \in Steps /\ IsStack(dm) /\ Downward(dm)
    /\ want \in [Sector -> Content]
    /\ hot \subseteq Sector
    /\ \A s \in hdr.hot : area[s] \in Content
    /\ {faults, deaths} \subseteq Nat

(* The key that the header gives to sector s, and whether an application   *)
(* may have s: it is in no hot segment and in no hotzone at work.          *)
KeyNow(s) == IF s \in hdr.done THEN "new" ELSE "old"
Free(s) == s \notin hdr.hot /\ (pc \in Busy => s \notin hot)

(* The hotzone device lets I/O through.                                    *)
HotzonePasses ==
    Exists(dm, "hotzone") /\ ~dm["hotzone"].susp /\ dm["hotzone"].live # ErrorTable

(* The overlay sends s to the data device with the key of the header, or   *)
(* to the hotzone device, which stops the I/O until s is done.             *)
TargetFine(to, s) ==
    \/ to.dev = "data" /\ to.key = KeyNow(s) /\ Free(s)
    \/ to.dev = "hotzone" /\ to.key = "new" /\ (HotzonePasses => s \in hdr.done /\ Free(s))

OverlayFine ==
    Exists(dm, "overlay") /\ ~dm["overlay"].susp =>
        \A s \in Sector : TargetFine(dm["overlay"].live.what[s], s)

(* The live table of `name' is the one of the header, before the stack is  *)
(* there, or the overlay, which is fine then; what is loaded is what the   *)
(* next resume is to make live.                                            *)
NamePart ==
    Exists(dm, "name") =>
        /\ ~dm["name"].susp
        /\ \/ dm["name"].live = SegmentTable(hdr.done) /\ hdr.hot = {} /\ pc \notin Stacked
           \/ dm["name"].live = Linear("overlay") /\ OverlayFine /\ pc \notin Early
        /\ pc \in {"load name", "switch name"} => OverlayFine
        /\ pc = "switch name" => dm["name"].load = Linear("overlay")
        /\ pc = "resume name" => dm["name"].load = SegmentTable(hdr.done)

(* The overlay has the targets of the hotzone, loaded and then live, and   *)
(* is suspended until the hotzone device is.                               *)
OverlayPart ==
    Exists(dm, "overlay") =>
        /\ pc \in Refresh => dm["overlay"].load = reencrypt_make_targets(hdr.done, hot)
        /\ pc \in {"suspend hotzone", "resume overlay"} => dm["overlay"].susp
        /\ pc \in Busy => dm["overlay"].live = reencrypt_make_targets(hdr.done, hot)
        /\ pc = "resume hotzone" =>
             \A s \in Sector : dm["overlay"].live.what[s].dev = "hotzone" => s \in hdr.done

(* The hotzone device maps the data device, or fails, and nothing passes   *)
(* it while the hotzone is reencrypted.                                    *)
HotzonePart ==
    /\ Exists(dm, "hotzone") => dm["hotzone"].live \in {Linear("data"), ErrorTable}
                                /\ dm["hotzone"].load = NoTable
    /\ pc \in {"resume overlay"} \cup Busy => ~HotzonePasses

(* The hot segment of the header is the hotzone from its commit until the  *)
(* data are written; the buffer has what the applications have written.    *)
HdrPart ==
    /\ pc \notin {"idle", "write"} => hdr.hot = {}
    /\ pc = "write" => hdr.hot = hot
    /\ pc \in Refresh \cup Busy => hot \cap hdr.done = {}
    /\ pc = "commit hot" => \A s \in hot : buf[s] = want[s]
    /\ pc = "write" => \A s \in hot : buf[s] = want[s] /\ (disk[s].key = "new" => disk[s].val = want[s])

(* Until the first fault or death, and as long as `name' is there, the     *)
(* devices are those that the step of the process calls for.               *)
Undisturbed == faults = 0 /\ deaths = 0 /\ Exists(dm, "name")
StackPart ==
    Undisturbed =>
        /\ pc \in {"idle", "remove helpers"} \cup Early =>
             /\ pc # "switch name" => dm["name"] = Device(SegmentTable(hdr.done))
        /\ pc \in {"idle", "create hotzone"} => \A d \in Helpers : ~Exists(dm, d)
        /\ pc = "create overlay" => ~Exists(dm, "overlay") /\ Exists(dm, "hotzone")
        /\ pc \in {"load name", "switch name"} \cup Stacked => Helpers \subseteq DOMAIN dm

(* The inductive invariant.                                                *)
OnlineInv ==
    /\ OnlineTypeOK /\ TypePart /\ NamePart /\ OverlayPart /\ HotzonePart /\ HdrPart
    /\ NoWriteLost /\ StackPart

-----------------------------------------------------------------------------
(* Tables and devices                                                      *)

(* A device has at least one sector.                                       *)
LEMMA Constants ==
    /\ N \in Nat /\ N > 0 /\ 0 \in Sector
    /\ \A s \in Sector : s \in Nat
  BY OnlineConstants DEF Sector

(* The table of the header's segments: one target for each sector, with    *)
(* the key of its segment, on the data device.                             *)
LEMMA SegmentTableIs ==
    ASSUME NEW D
    PROVE  /\ SegmentTable(D) \in DevTables /\ SegmentTable(D).over = {"data"}
           /\ \A s \in Sector : SegmentTable(D).what[s] = Target("data", IF s \in D THEN "new" ELSE "old")
<1> DEFINE f == [s \in Sector |-> Target("data", IF s \in D THEN "new" ELSE "old")]
<1>1. f \in [Sector -> [dev : {"data", "overlay", "hotzone"}, key : {"none", "old", "new"}]]
  BY DEF Target
<1>2. SegmentTable(D) = Table(f)
  BY DEF SegmentTable
<1>3. {f[s].dev : s \in Sector} = {"data"}
  BY Constants DEF Target
<1> QED
  BY <1>1, <1>2, <1>3 DEF Table, DevTables

(* A linear table sends every sector to the same place of one device.      *)
LEMMA LinearIs ==
    ASSUME NEW d \in {"data", "overlay"}
    PROVE  /\ Linear(d) \in DevTables /\ Linear(d).over = {d}
           /\ \A s \in Sector : Linear(d).what[s] = Target(d, "none")
<1> DEFINE f == [s \in Sector |-> Target(d, "none")]
<1>1. f \in [Sector -> [dev : {"data", "overlay", "hotzone"}, key : {"none", "old", "new"}]]
  BY DEF Target
<1>2. Linear(d) = Table(f)
  BY DEF Linear
<1>3. {f[s].dev : s \in Sector} = {d}
  BY Constants DEF Target
<1> QED
  BY <1>1, <1>2, <1>3 DEF Table, DevTables

(* The table of the overlay sends the hotzone to the hotzone device and    *)
(* the rest to the data device.                                            *)
LEMMA TargetsAre ==
    ASSUME NEW D, NEW Z
    PROVE  /\ reencrypt_make_targets(D, Z) \in DevTables
           /\ reencrypt_make_targets(D, Z).over \subseteq {"data", "hotzone"}
           /\ reencrypt_make_targets(D, Z).over # {}
           /\ \A s \in Sector : reencrypt_make_targets(D, Z).what[s] =
                 IF s \in Z THEN Target("hotzone", "new")
                 ELSE Target("data", IF s \in D THEN "new" ELSE "old")
<1> DEFINE f == [s \in Sector |-> IF s \in Z THEN Target("hotzone", "new")
                                  ELSE Target("data", IF s \in D THEN "new" ELSE "old")]
<1>1. f \in [Sector -> [dev : {"data", "overlay", "hotzone"}, key : {"none", "old", "new"}]]
  BY DEF Target
<1>2. reencrypt_make_targets(D, Z) = Table(f)
  BY DEF reencrypt_make_targets
<1>3. \A s \in Sector : f[s].dev \in {"data", "hotzone"}
  BY DEF Target
<1>4. {f[s].dev : s \in Sector} \subseteq {"data", "hotzone"} /\ {f[s].dev : s \in Sector} # {}
  BY <1>3, Constants
<1> QED
  BY <1>1, <1>2, <1>4 DEF Table, DevTables

(* No table and the error table refer to no device.                        *)
LEMMA OtherTables ==
    /\ NoTable \in DevTables /\ NoTable.over = {}
    /\ ErrorTable \in DevTables /\ ErrorTable.over = {} /\ ErrorTable # NoTable
  BY DEF NoTable, ErrorTable, DevTables

(* A device that was just created or resumed.                              *)
LEMMA DeviceIs ==
    ASSUME NEW t
    PROVE  Device(t).live = t /\ Device(t).load = NoTable /\ ~Device(t).susp
  BY DEF Device

(* What the calls to the kernel make of the devices: a table is loaded,    *)
LEMMA LoadedIs ==
    ASSUME NEW d, IsStack(d), NEW n \in DOMAIN d, NEW t \in DevTables
    PROVE  /\ IsStack(Loaded(d, n, t)) /\ DOMAIN Loaded(d, n, t) = DOMAIN d
           /\ Loaded(d, n, t)[n] = [live |-> d[n].live, load |-> t, susp |-> d[n].susp]
           /\ \A m \in DOMAIN d \ {n} : Loaded(d, n, t)[m] = d[m]
  BY DEF IsStack, Loaded, Devices

(* a device is resumed, with the loaded table if there is one,             *)
LEMMA ResumedIs ==
    ASSUME NEW d, IsStack(d), NEW n \in DOMAIN d
    PROVE  /\ IsStack(Resumed(d, n)) /\ DOMAIN Resumed(d, n) = DOMAIN d
           /\ Resumed(d, n)[n] = Device(IF d[n].load = NoTable THEN d[n].live ELSE d[n].load)
           /\ \A m \in DOMAIN d \ {n} : Resumed(d, n)[m] = d[m]
  BY OtherTables DEF IsStack, Resumed, Devices, Device

(* suspended,                                                              *)
LEMMA SuspendedIs ==
    ASSUME NEW d, IsStack(d), NEW n \in DOMAIN d
    PROVE  /\ IsStack(SuspendedNow(d, n)) /\ DOMAIN SuspendedNow(d, n) = DOMAIN d
           /\ SuspendedNow(d, n)[n] = [live |-> d[n].live, load |-> d[n].load, susp |-> TRUE]
           /\ \A m \in DOMAIN d \ {n} : SuspendedNow(d, n)[m] = d[m]
  BY DEF IsStack, SuspendedNow, Devices

(* created,                                                                *)
LEMMA CreatedIs ==
    ASSUME NEW d, IsStack(d), NEW n \in {"name", "overlay", "hotzone"}, NEW t \in DevTables
    PROVE  /\ IsStack(Created(d, n, t)) /\ DOMAIN Created(d, n, t) = DOMAIN d \cup {n}
           /\ Created(d, n, t)[n] = Device(t)
           /\ \A m \in DOMAIN d \ {n} : Created(d, n, t)[m] = d[m]
  BY OtherTables DEF IsStack, Created, Devices, Device

(* removed,                                                                *)
LEMMA RemovedIs ==
    ASSUME NEW d, IsStack(d), NEW n
    PROVE  /\ IsStack(Removed(d, n)) /\ DOMAIN Removed(d, n) = DOMAIN d \ {n}
           /\ \A m \in DOMAIN d \ {n} : Removed(d, n)[m] = d[m]
  BY DEF IsStack, Removed, Restrict, Devices

(* or given an error table at once.                                        *)
LEMMA ErroredIs ==
    ASSUME NEW d, IsStack(d), NEW n \in DOMAIN d
    PROVE  /\ IsStack(Errored(d, n)) /\ DOMAIN Errored(d, n) = DOMAIN d
           /\ Errored(d, n)[n] = Device(ErrorTable)
           /\ \A m \in DOMAIN d \ {n} : Errored(d, n)[m] = d[m]
<1> DEFINE e == Loaded(d, n, ErrorTable)
<1>1. /\ IsStack(e) /\ DOMAIN e = DOMAIN d /\ e[n].load = ErrorTable
      /\ \A m \in DOMAIN d \ {n} : e[m] = d[m]
  <2>1. ErrorTable \in DevTables
    BY OtherTables
  <2>2. /\ IsStack(e) /\ DOMAIN e = DOMAIN d
        /\ e[n] = [live |-> d[n].live, load |-> ErrorTable, susp |-> d[n].susp]
        /\ \A m \in DOMAIN d \ {n} : e[m] = d[m]
    BY <2>1, LoadedIs
  <2> QED
    BY <2>2
<1>2. /\ IsStack(Resumed(e, n)) /\ DOMAIN Resumed(e, n) = DOMAIN d
      /\ Resumed(e, n)[n] = Device(IF e[n].load = NoTable THEN e[n].live ELSE e[n].load)
      /\ \A m \in DOMAIN e \ {n} : Resumed(e, n)[m] = e[m]
  BY <1>1, ResumedIs
<1> QED
  BY <1>1, <1>2, OtherTables DEF Errored

(* A device is removed unless something maps to it, and nothing else is.   *)
LEMMA RemovedIfFreeIs ==
    ASSUME NEW d, IsStack(d), NEW n
    PROVE  /\ IsStack(RemovedIfFree(d, n))
           /\ DOMAIN RemovedIfFree(d, n) \in {DOMAIN d, DOMAIN d \ {n}}
           /\ (\A m \in DOMAIN d : n \notin Maps(d, m)) => n \notin DOMAIN RemovedIfFree(d, n)
           /\ \A m \in DOMAIN RemovedIfFree(d, n) : RemovedIfFree(d, n)[m] = d[m]
  BY RemovedIs DEF RemovedIfFree, Exists, Holders, Maps

(* The helper devices that can be removed are; `name' stays.               *)
LEMMA UnstackedIs ==
    ASSUME NEW d, IsStack(d), Downward(d)
    PROVE  /\ IsStack(Unstacked(d)) /\ Downward(Unstacked(d))
           /\ DOMAIN Unstacked(d) \subseteq DOMAIN d
           /\ "name" \in DOMAIN d => "name" \in DOMAIN Unstacked(d)
           /\ \A m \in DOMAIN Unstacked(d) : Unstacked(d)[m] = d[m]
           /\ ("name" \in DOMAIN d => Maps(d, "name") \subseteq {"data"}) =>
                 DOMAIN Unstacked(d) \subseteq {"name"}
<1> DEFINE e == RemovedIfFree(d, "overlay")  g == RemovedIfFree(e, "hotzone")
<1>0. Unstacked(d) = g
  BY DEF Unstacked
<1>1. /\ IsStack(e) /\ DOMAIN e \in {DOMAIN d, DOMAIN d \ {"overlay"}}
      /\ \A m \in DOMAIN e : e[m] = d[m]
      /\ (\A m \in DOMAIN d : "overlay" \notin Maps(d, m)) => "overlay" \notin DOMAIN e
  BY RemovedIfFreeIs
<1>2. /\ IsStack(g) /\ DOMAIN g \in {DOMAIN e, DOMAIN e \ {"hotzone"}}
      /\ \A m \in DOMAIN g : g[m] = e[m]
      /\ (\A m \in DOMAIN e : "hotzone" \notin Maps(e, m)) => "hotzone" \notin DOMAIN g
  BY <1>1, RemovedIfFreeIs
<1>3. \A m \in DOMAIN g : g[m] = d[m]
  BY <1>1, <1>2
<1>4. Downward(g)
  BY <1>1, <1>2, <1>3 DEF Downward, Maps
<1>5. ASSUME "name" \in DOMAIN d => Maps(d, "name") \subseteq {"data"}
      PROVE  DOMAIN g \subseteq {"name"}
  <2>1. "overlay" \notin DOMAIN e
    BY <1>1, <1>5 DEF IsStack, Downward
  <2>2. \A m \in DOMAIN e : "hotzone" \notin Maps(e, m)
    BY <2>1, <1>1, <1>5 DEF IsStack, Downward, Maps
  <2> QED
    BY <2>1, <2>2, <1>1, <1>2 DEF IsStack
<1> QED
  BY <1>0, <1>1, <1>2, <1>3, <1>4, <1>5

-----------------------------------------------------------------------------
(* What applications reach                                                 *)

(* A target.                                                               *)
LEMMA TargetIs ==
    ASSUME NEW d, NEW k
    PROVE  Target(d, k).dev = d /\ Target(d, k).key = k
  BY DEF Target

(* One hop of I/O: it stops at the data device, is blocked by a suspended  *)
(* device, fails at an error table, and else goes where the table says.    *)
LEMMA ThroughIs ==
    ASSUME NEW d, NEW k, NEW s
    PROVE  /\ d \notin DOMAIN dm => Through(Target(d, k), s) = Target(d, k)
           /\ d \in DOMAIN dm /\ dm[d].susp => Through(Target(d, k), s) = Target("blocked", k)
           /\ d \in DOMAIN dm /\ ~dm[d].susp /\ dm[d].live = ErrorTable =>
                 Through(Target(d, k), s) = Target("error", k)
           /\ d \in DOMAIN dm /\ ~dm[d].susp /\ dm[d].live # ErrorTable =>
                 Through(Target(d, k), s) = Target(dm[d].live.what[s].dev,
                     IF dm[d].live.what[s].key = "none" THEN k ELSE dm[d].live.what[s].key)
  BY TargetIs DEF Through

(* I/O that reaches the data device is for a sector that the process does  *)
(* not have, and is encrypted with the key of the header.                  *)
LEMMA Routed ==
    ASSUME OnlineInv, Exists(dm, "name"), NEW s \in Sector, Reaches(s)
    PROVE  Free(s) /\ Route(s).key = KeyNow(s)
<1> DEFINE T(x) == Through(x, s)
           h1 == T(Target("name", "none"))
<1>0. /\ Route(s) = T(T(h1)) /\ T(T(h1)).dev = "data" /\ IsStack(dm)
      /\ "name" \in DOMAIN dm /\ ~dm["name"].susp
      /\ "data" \notin DOMAIN dm /\ "blocked" \notin DOMAIN dm /\ "error" \notin DOMAIN dm
  BY DEF OnlineInv, TypePart, NamePart, IsStack, Reaches, Route, Exists
<1>1. CASE dm["name"].live = SegmentTable(hdr.done) /\ hdr.hot = {} /\ pc \notin Stacked
  <2>1. /\ dm["name"].live # ErrorTable
        /\ dm["name"].live.what[s] = Target("data", KeyNow(s))
    BY <1>1, SegmentTableIs, OtherTables DEF KeyNow
  <2>2. h1 = Target("data", KeyNow(s))
    BY <2>1, <1>0, ThroughIs, TargetIs DEF KeyNow
  <2>3. T(T(h1)) = Target("data", KeyNow(s))
    BY <2>2, <1>0, ThroughIs
  <2>4. Free(s)
    BY <1>1 DEF Free, Stacked
  <2> QED
    BY <2>3, <2>4, <1>0, TargetIs
<1>2. CASE dm["name"].live = Linear("overlay") /\ OverlayFine
  <2>1. /\ dm["name"].live # ErrorTable
        /\ dm["name"].live.what[s] = Target("overlay", "none")
    BY <1>2, LinearIs, OtherTables
  <2>2. h1 = Target("overlay", "none")
    BY <2>1, <1>0, ThroughIs, TargetIs
  <2> DEFINE h2 == T(Target("overlay", "none"))
  <2>3. T(h2).dev = "data" /\ Route(s) = T(h2)
    BY <2>2, <1>0
  <2>4. /\ "overlay" \in DOMAIN dm /\ ~dm["overlay"].susp
        /\ dm["overlay"].live # ErrorTable
    BY <2>3, <1>0, ThroughIs, TargetIs
  <2> DEFINE to == dm["overlay"].live.what[s]
  <2>5. TargetFine(to, s)
    BY <2>4, <1>2 DEF OverlayFine, Exists
  <2>6. h2 = Target(to.dev, to.key)
    BY <2>4, <2>5, ThroughIs DEF TargetFine, KeyNow
  <2>7. CASE to.dev = "data" /\ to.key = KeyNow(s) /\ Free(s)
    <3>1. T(h2) = Target("data", KeyNow(s))
      BY <2>6, <2>7, <1>0, ThroughIs
    <3> QED
      BY <3>1, <2>3, <2>7, TargetIs
  <2>8. CASE /\ to.dev = "hotzone" /\ to.key = "new"
             /\ HotzonePasses => s \in hdr.done /\ Free(s)
    <3>1. h2 = Target("hotzone", "new")
      BY <2>6, <2>8
    <3>2. HotzonePasses
      BY <3>1, <2>3, ThroughIs, TargetIs DEF HotzonePasses, Exists
    <3>3. dm["hotzone"].live = Linear("data")
      BY <3>2 DEF OnlineInv, HotzonePart, HotzonePasses
    <3>4. dm["hotzone"].live.what[s] = Target("data", "none")
      BY <3>3, LinearIs
    <3>5. T(h2) = Target("data", "new")
      BY <3>1, <3>2, <3>4, ThroughIs, TargetIs DEF HotzonePasses, Exists
    <3> QED
      BY <3>2, <3>5, <2>3, <2>8, TargetIs DEF KeyNow
  <2> QED
    BY <2>5, <2>7, <2>8 DEF TargetFine
<1> QED
  BY <1>1, <1>2 DEF OnlineInv, NamePart

(* So applications read what they have written.                            *)
LEMMA AppsSee ==
    ASSUME OnlineInv
    PROVE  AppsSeeTheirData
<1> SUFFICES ASSUME Exists(dm, "name"), NEW s \in Sector, Reaches(s)
             PROVE  disk[s] = [key |-> Route(s).key, val |-> want[s]]
  BY DEF AppsSeeTheirData
<1>1. s \notin hdr.hot /\ Route(s).key = KeyNow(s)
  BY Routed DEF Free
<1>2. disk[s] = [key |-> KeyNow(s), val |-> want[s]]
  BY <1>1 DEF OnlineInv, NoWriteLost, KeyNow
<1> QED
  BY <1>1, <1>2

-----------------------------------------------------------------------------
(* The ends of a process                                                   *)

(* The overlay stays fine while the header, its live table and the hotzone *)
(* do, and the hotzone device lets no more through than before.            *)
LEMMA OverlayStays ==
    ASSUME OverlayFine, hdr' = hdr, pc' \in Busy => pc \in Busy /\ hot' = hot,
           "overlay" \in DOMAIN dm' => "overlay" \in DOMAIN dm /\ dm'["overlay"].live = dm["overlay"].live
                                       /\ (dm["overlay"].susp => dm'["overlay"].susp),
           HotzonePasses' => HotzonePasses
    PROVE  OverlayFine'
<1> SUFFICES ASSUME "overlay" \in DOMAIN dm', ~dm'["overlay"].susp, NEW s \in Sector
             PROVE  TargetFine(dm["overlay"].live.what[s], s)'
  BY DEF OverlayFine, Exists
<1>1. TargetFine(dm["overlay"].live.what[s], s)
  BY DEF OverlayFine, Exists
<1>2. Free(s) => Free(s)'
  BY DEF Free
<1>3. KeyNow(s)' = KeyNow(s)
  BY DEF KeyNow
<1>4. dm'["overlay"].live.what[s] = dm["overlay"].live.what[s]
  OBVIOUS
<1> QED
  BY <1>1, <1>2, <1>3, <1>4 DEF TargetFine

(* A process that ends with the devices as they are, after a fault or a    *)
(* death, or after somebody has removed `name'.                            *)
LEMMA Ends ==
    ASSUME OnlineInv, UNCHANGED <<dm, hdr, area, disk, want, used, hot, buf>>,
           pc' = "idle", {faults', deaths'} \subseteq Nat, ~Undisturbed'
    PROVE  OnlineInv'
<1>1. OnlineTypeOK' /\ TypePart'
  BY DEF OnlineInv, OnlineTypeOK, TypePart, Exists, Steps, IsStack, Downward, Maps
<1>2. OverlayFine => OverlayFine'
  <2>1. HotzonePasses' => HotzonePasses
    BY DEF HotzonePasses, Exists
  <2> QED
    BY <2>1, OverlayStays DEF Busy
<1>3. NamePart'
  BY <1>2 DEF OnlineInv, NamePart, Exists, Stacked, Early, Refresh, Busy
<1>4. OverlayPart' /\ HotzonePart' /\ HdrPart'
  BY DEF OnlineInv, OverlayPart, HotzonePart, HdrPart, Exists, Refresh, Busy
<1>5. NoWriteLost' /\ StackPart'
  BY DEF OnlineInv, NoWriteLost, StackPart
<1> QED
  BY <1>1, <1>3, <1>4, <1>5 DEF OnlineInv

(* A process that gives up while it stacks the devices.                    *)
LEMMA EndsUnstacked ==
    ASSUME OnlineInv, pc \in Early, dm' = Unstacked(dm),
           UNCHANGED <<hdr, area, disk, want, used, hot, buf>>,
           pc' = "idle", {faults', deaths'} \subseteq Nat, ~Undisturbed'
    PROVE  OnlineInv'
<1>0. /\ IsStack(dm) /\ Downward(dm) /\ NamePart
  BY DEF OnlineInv, TypePart
<1>1. /\ IsStack(dm') /\ Downward(dm')
      /\ DOMAIN dm' \subseteq DOMAIN dm /\ ("name" \in DOMAIN dm => "name" \in DOMAIN dm')
      /\ \A m \in DOMAIN dm' : dm'[m] = dm[m]
  BY <1>0, UnstackedIs
<1>2. OnlineTypeOK' /\ TypePart'
  BY <1>1 DEF OnlineInv, OnlineTypeOK, TypePart, Exists, Steps
<1>3. NamePart'
  BY <1>0, <1>1 DEF NamePart, Exists, Stacked, Early, Refresh, Busy
<1>4. OverlayPart' /\ HotzonePart' /\ HdrPart'
  BY <1>1 DEF OnlineInv, OverlayPart, HotzonePart, HdrPart, Exists, Refresh, Busy
<1>5. NoWriteLost' /\ StackPart'
  BY DEF OnlineInv, NoWriteLost, StackPart
<1> QED
  BY <1>2, <1>3, <1>4, <1>5 DEF OnlineInv

(* A process that fails with hot data on the device.                       *)
LEMMA EndsFatal ==
    ASSUME OnlineInv, pc = "write", dm' = FatalDevices,
           UNCHANGED <<hdr, area, disk, want, used, hot, buf>>,
           pc' = "idle", {faults', deaths'} \subseteq Nat, ~Undisturbed'
    PROVE  OnlineInv'
<1>0. /\ IsStack(dm) /\ Downward(dm) /\ NamePart
  BY DEF OnlineInv, TypePart
<1>1. /\ IsStack(dm') /\ DOMAIN dm' = DOMAIN dm
      /\ \A m \in DOMAIN dm' \ {"hotzone"} : dm'[m] = dm[m]
      /\ "hotzone" \in DOMAIN dm => dm'["hotzone"] \in {dm["hotzone"], Device(ErrorTable)}
  BY <1>0, ErroredIs DEF FatalDevices, Suspended, Exists
<1>2. Downward(dm')
  BY <1>0, <1>1, OtherTables DEF Downward, Maps, Device
<1>3. OnlineTypeOK' /\ TypePart'
  BY <1>1, <1>2 DEF OnlineInv, OnlineTypeOK, TypePart, Exists, Steps
<1>4. HotzonePasses' => HotzonePasses
  BY <1>1 DEF HotzonePasses, Exists, Device
<1>5. OverlayFine => OverlayFine'
  BY <1>1, <1>4, OverlayStays DEF Busy
<1>6. NamePart'
  BY <1>0, <1>1, <1>5 DEF NamePart, Exists, Stacked, Early, Refresh, Busy
<1>7. OverlayPart' /\ HotzonePart' /\ HdrPart'
  BY <1>1, OtherTables DEF OnlineInv, OverlayPart, HotzonePart, HdrPart, Exists, Refresh, Busy, Device
<1>8. NoWriteLost' /\ StackPart'
  BY DEF OnlineInv, NoWriteLost, StackPart
<1> QED
  BY <1>3, <1>6, <1>7, <1>8 DEF OnlineInv

(* A fault is counted.                                                     *)
LEMMA Faulty ==
    ASSUME OnlineInv, NEW at, Fault(at), UNCHANGED deaths
    PROVE  {faults', deaths'} \subseteq Nat /\ ~Undisturbed'
<1>1. faults \in Nat /\ deaths \in Nat
  BY DEF OnlineInv, TypePart
<1> QED
  BY <1>1 DEF Fault, Undisturbed

(* A call that finds no device fails; somebody has removed `name' as well. *)
LEMMA Missing ==
    ASSUME OnlineInv, UNCHANGED <<dm, faults, deaths>>,
           \/ ~Exists(dm, "name")
           \/ pc \in Stacked /\ ~(Helpers \subseteq DOMAIN dm)
    PROVE  {faults', deaths'} \subseteq Nat /\ ~Undisturbed'
  BY DEF OnlineInv, TypePart, StackPart, Undisturbed, Exists

-----------------------------------------------------------------------------
(* The stack is built                                                      *)

(* The process starts: the devices stay as they are.                       *)
LEMMA LoadContextStep ==
    ASSUME OnlineInv, LoadContext
    PROVE  OnlineInv'
<1> USE DEF LoadContext, At, kernel, Fine
<1>1. OnlineTypeOK' /\ TypePart'
  BY DEF OnlineInv, OnlineTypeOK, TypePart, Exists, Steps, Early, IsStack, Downward, Maps
<1>2. NamePart'
  BY DEF OnlineInv, NamePart, Exists, Stacked, Early, Refresh, Busy
<1>3. OverlayPart' /\ HotzonePart' /\ HdrPart'
  BY DEF OnlineInv, OverlayPart, HotzonePart, HdrPart, Exists, Refresh, Busy
<1>4. NoWriteLost'
  BY DEF OnlineInv, NoWriteLost
<1>5. StackPart'
  BY DEF OnlineInv, StackPart, Undisturbed, Exists, Stacked, Early, Refresh, Busy
<1> QED
  BY <1>1, <1>2, <1>3, <1>4, <1>5 DEF OnlineInv

(* The hotzone device is created; `name' does not use it yet.              *)
LEMMA CreateHotzoneStep ==
    ASSUME OnlineInv, CreateHotzone
    PROVE  OnlineInv'
<1>0. /\ UNCHANGED <<hdr, area, disk, want, used, hot, buf, deaths>>
      /\ pc = "create hotzone" /\ IsStack(dm) /\ Downward(dm)
  BY DEF CreateHotzone, At, kernel, OnlineInv, TypePart
<1>1. CASE /\ ~Exists(dm, "hotzone") /\ dm' = Created(dm, "hotzone", Linear("data"))
           /\ pc' = "create overlay" /\ UNCHANGED <<result, faults>>
  <2>1. /\ IsStack(dm') /\ DOMAIN dm' = DOMAIN dm \cup {"hotzone"}
        /\ dm'["hotzone"] = Device(Linear("data"))
        /\ \A m \in DOMAIN dm \ {"hotzone"} : dm'[m] = dm[m]
    <3>1. Linear("data") \in DevTables
      BY LinearIs
    <3> QED
      BY <1>0, <1>1, <3>1, CreatedIs
  <2>2. Downward(dm')
    <3>1. dm'["hotzone"].live.over = {"data"} /\ dm'["hotzone"].load.over = {}
      BY <2>1, LinearIs, OtherTables, DeviceIs
    <3> QED
      BY <1>0, <1>1, <2>1, <3>1 DEF Downward, Maps, Exists
  <2>3. OnlineTypeOK' /\ TypePart'
    BY <1>0, <1>1, <2>1, <2>2 DEF OnlineInv, OnlineTypeOK, TypePart, Exists, Steps, Early
  <2>4. NamePart'
    BY <1>0, <1>1, <2>1 DEF OnlineInv, NamePart, Exists, Stacked, Early, Refresh, Busy
  <2>5. OverlayPart' /\ HotzonePart' /\ HdrPart'
    <3>1. dm'["hotzone"].live = Linear("data") /\ dm'["hotzone"].load = NoTable
      BY <2>1, DeviceIs
    <3>2. HotzonePart'
      BY <1>1, <3>1 DEF HotzonePart, Exists, Busy
    <3> QED
      BY <1>0, <1>1, <2>1, <3>2 DEF OnlineInv, OverlayPart, HdrPart, Exists, Refresh, Busy
  <2>6. NoWriteLost'
    BY <1>0 DEF OnlineInv, NoWriteLost
  <2>7. StackPart'
    BY <1>0, <1>1, <2>1 DEF OnlineInv, StackPart, Undisturbed, Exists, Stacked, Early, Refresh, Busy, Helpers
  <2> QED
    BY <2>3, <2>4, <2>5, <2>6, <2>7 DEF OnlineInv
<1>2. CASE Exists(dm, "hotzone") /\ End("failed") /\ UNCHANGED <<dm, faults>>
  <2>1. {faults', deaths'} \subseteq Nat /\ ~Undisturbed'
    BY <1>0, <1>2 DEF OnlineInv, TypePart, StackPart, Undisturbed, Exists, Helpers, Early
  <2> QED
    BY <1>0, <1>2, <2>1, Ends DEF End
<1>3. CASE Fault("create") /\ End("failed") /\ UNCHANGED dm
  BY <1>0, <1>3, Faulty, Ends DEF End
<1> QED
  BY <1>1, <1>2, <1>3 DEF CreateHotzone

(* The overlay is created with the table of `name', or one that was left   *)
(* behind gets it: it is fine in either case.                              *)
LEMMA CreateOverlayStep ==
    ASSUME OnlineInv, CreateOverlay
    PROVE  OnlineInv'
<1>0. /\ UNCHANGED <<hdr, area, disk, want, used, hot, buf, deaths>>
      /\ pc = "create overlay" /\ IsStack(dm) /\ Downward(dm) /\ pc \in Early
  BY DEF CreateOverlay, At, kernel, OnlineInv, TypePart, Early
<1>1. CASE /\ Exists(dm, "name")
           /\ dm' = IF Exists(dm, "overlay")
                    THEN Resumed(Loaded(dm, "overlay", dm["name"].live), "overlay")
                    ELSE Created(dm, "overlay", dm["name"].live)
           /\ pc' = "load name" /\ UNCHANGED <<result, faults>>
  <2> DEFINE t == SegmentTable(hdr.done)
  <2>0. /\ dm["name"].live = t /\ hdr.hot = {} /\ t \in DevTables /\ t # NoTable /\ t.over = {"data"}
    BY <1>0, <1>1, SegmentTableIs, OtherTables DEF OnlineInv, NamePart, Early
  <2> HIDE DEF t
  <2>1. /\ IsStack(dm') /\ DOMAIN dm' = DOMAIN dm \cup {"overlay"}
        /\ dm'["overlay"] = Device(t)
        /\ \A m \in DOMAIN dm \ {"overlay"} : dm'[m] = dm[m]
    <3>1. CASE Exists(dm, "overlay")
      <4> DEFINE e == Loaded(dm, "overlay", t)
      <4>1. /\ IsStack(e) /\ DOMAIN e = DOMAIN dm /\ "overlay" \in DOMAIN e
            /\ e["overlay"] = [live |-> dm["overlay"].live, load |-> t, susp |-> dm["overlay"].susp]
            /\ \A m \in DOMAIN dm \ {"overlay"} : e[m] = dm[m]
        <5>1. "overlay" \in DOMAIN dm /\ IsStack(dm) /\ t \in DevTables
          BY <1>0, <2>0, <3>1 DEF Exists
        <5> QED
          BY <5>1, LoadedIs
      <4>2. dm' = Resumed(e, "overlay")
        BY <1>1, <2>0, <3>1
      <4> HIDE DEF e
      <4>3. /\ IsStack(Resumed(e, "overlay")) /\ DOMAIN Resumed(e, "overlay") = DOMAIN e
            /\ Resumed(e, "overlay")["overlay"] = Device(IF e["overlay"].load = NoTable THEN e["overlay"].live ELSE e["overlay"].load)
            /\ \A m \in DOMAIN e \ {"overlay"} : Resumed(e, "overlay")[m] = e[m]
        BY <4>1, ResumedIs
      <4>4. e["overlay"].load = t
        BY <4>1
      <4> QED
        BY <4>1, <4>2, <4>3, <4>4, <2>0
    <3>2. CASE ~Exists(dm, "overlay")
      <4>1. dm' = Created(dm, "overlay", t)
        BY <1>1, <2>0, <3>2
      <4>2. /\ IsStack(Created(dm, "overlay", t)) /\ DOMAIN Created(dm, "overlay", t) = DOMAIN dm \cup {"overlay"}
            /\ Created(dm, "overlay", t)["overlay"] = Device(t)
            /\ \A m \in DOMAIN dm \ {"overlay"} : Created(dm, "overlay", t)[m] = dm[m]
        BY <1>0, <2>0, CreatedIs
      <4> QED
        BY <4>1, <4>2
    <3> QED
      BY <3>1, <3>2
  <2>2. Downward(dm')
    <3>1. dm'["overlay"].live.over = {"data"} /\ dm'["overlay"].load.over = {}
      BY <2>0, <2>1, OtherTables, DeviceIs
    <3> QED
      BY <1>0, <2>1, <3>1 DEF Downward, Maps
  <2>3. OnlineTypeOK' /\ TypePart'
    BY <1>0, <1>1, <2>1, <2>2 DEF OnlineInv, OnlineTypeOK, TypePart, Exists, Steps, Early
  <2>4. OverlayFine'
    <3>1. ASSUME NEW s \in Sector PROVE TargetFine(dm["overlay"].live.what[s], s)'
      <4>1. dm'["overlay"].live.what[s] = Target("data", KeyNow(s))
        BY <2>1, SegmentTableIs DEF Device, KeyNow, t
      <4>2. Free(s)' /\ KeyNow(s)' = KeyNow(s)
        BY <1>0, <1>1, <2>0 DEF Free, KeyNow, Busy
      <4> QED
        BY <4>1, <4>2, TargetIs DEF TargetFine
    <3> QED
      BY <3>1 DEF OverlayFine
  <2>5. NamePart'
    BY <1>0, <1>1, <2>1, <2>4 DEF OnlineInv, NamePart, Exists, Stacked, Early, Refresh, Busy
  <2>6. OverlayPart' /\ HotzonePart' /\ HdrPart'
    BY <1>0, <1>1, <2>1 DEF OnlineInv, OverlayPart, HotzonePart, HdrPart, Exists, Refresh, Busy
  <2>7. NoWriteLost'
    BY <1>0 DEF OnlineInv, NoWriteLost
  <2>8. StackPart'
    BY <1>0, <1>1, <2>1 DEF OnlineInv, StackPart, Undisturbed, Exists, Stacked, Early, Refresh, Busy, Helpers
  <2> QED
    BY <2>3, <2>5, <2>6, <2>7, <2>8 DEF OnlineInv
<1>2. CASE ~Exists(dm, "name") /\ dm' = Unstacked(dm) /\ End("failed") /\ UNCHANGED faults
  <2>1. {faults', deaths'} \subseteq Nat /\ ~Undisturbed'
    BY <1>0, <1>2, UnstackedIs DEF OnlineInv, TypePart, Undisturbed, Exists
  <2> QED
    BY <1>0, <1>2, <2>1, EndsUnstacked DEF End
<1>3. CASE Fault("create") /\ dm' = Unstacked(dm) /\ End("failed")
  BY <1>0, <1>3, Faulty, EndsUnstacked DEF End
<1> QED
  BY <1>1, <1>2, <1>3 DEF CreateOverlay

(* `name' gets the overlay as its next table.                              *)
LEMMA LoadNameStep ==
    ASSUME OnlineInv, LoadName
    PROVE  OnlineInv'
<1>0. /\ UNCHANGED <<hdr, area, disk, want, used, hot, buf, deaths>>
      /\ pc = "load name" /\ IsStack(dm) /\ Downward(dm) /\ pc \in Early
  BY DEF LoadName, At, kernel, OnlineInv, TypePart, Early
<1>1. CASE /\ Exists(dm, "name") /\ dm' = Loaded(dm, "name", Linear("overlay"))
           /\ pc' = "switch name" /\ UNCHANGED <<result, faults>>
  <2>1. /\ IsStack(dm') /\ DOMAIN dm' = DOMAIN dm
        /\ dm'["name"] = [live |-> dm["name"].live, load |-> Linear("overlay"), susp |-> dm["name"].susp]
        /\ \A m \in DOMAIN dm \ {"name"} : dm'[m] = dm[m]
    <3>1. Linear("overlay") \in DevTables /\ "name" \in DOMAIN dm
      BY <1>1, LinearIs DEF Exists
    <3> QED
      BY <1>0, <1>1, <3>1, LoadedIs
  <2>2. OnlineTypeOK' /\ TypePart'
    BY <1>0, <1>1, <2>1 DEF OnlineInv, OnlineTypeOK, TypePart, Exists, Steps, Early, Downward, Maps
  <2>3. OverlayFine => OverlayFine'
    <3>1. HotzonePasses' => HotzonePasses
      BY <2>1 DEF HotzonePasses, Exists
    <3> QED
      BY <1>0, <1>1, <2>1, <3>1, OverlayStays DEF Busy
  <2>4. NamePart'
    <3>1. /\ dm'["name"].live = dm["name"].live /\ dm'["name"].load = Linear("overlay")
          /\ dm'["name"].susp = dm["name"].susp
      BY <2>1
    <3> QED
      BY <1>0, <1>1, <2>1, <2>3, <3>1 DEF OnlineInv, NamePart, Exists, Stacked, Early, Refresh, Busy
  <2>5. OverlayPart' /\ HotzonePart' /\ HdrPart'
    BY <1>0, <1>1, <2>1 DEF OnlineInv, OverlayPart, HotzonePart, HdrPart, Exists, Refresh, Busy
  <2>6. NoWriteLost'
    BY <1>0 DEF OnlineInv, NoWriteLost
  <2>7. StackPart'
    BY <1>0, <1>1, <2>1 DEF OnlineInv, StackPart, Undisturbed, Exists, Stacked, Early, Refresh, Busy, Helpers
  <2> QED
    BY <2>2, <2>4, <2>5, <2>6, <2>7 DEF OnlineInv
<1>2. CASE ~Exists(dm, "name") /\ dm' = Unstacked(dm) /\ End("failed") /\ UNCHANGED faults
  <2>1. {faults', deaths'} \subseteq Nat /\ ~Undisturbed'
    BY <1>0, <1>2, UnstackedIs DEF OnlineInv, TypePart, Undisturbed, Exists
  <2> QED
    BY <1>0, <1>2, <2>1, EndsUnstacked DEF End
<1>3. CASE Fault("load") /\ dm' = Unstacked(dm) /\ End("failed")
  BY <1>0, <1>3, Faulty, EndsUnstacked DEF End
<1> QED
  BY <1>1, <1>2, <1>3 DEF LoadName

(* `name' maps the overlay, which is fine already.                         *)
LEMMA SwitchNameStep ==
    ASSUME OnlineInv, SwitchName
    PROVE  OnlineInv'
<1>0. /\ UNCHANGED <<hdr, area, disk, want, used, hot, buf, deaths>>
      /\ pc = "switch name" /\ IsStack(dm) /\ Downward(dm) /\ pc \in Early
  BY DEF SwitchName, At, kernel, OnlineInv, TypePart, Early
<1>1. CASE /\ Exists(dm, "name") /\ dm' = Resumed(dm, "name")
           /\ pc' = "next" /\ UNCHANGED <<result, faults>>
  <2>0. dm["name"].load = Linear("overlay") /\ Linear("overlay") # NoTable /\ OverlayFine
    BY <1>0, <1>1, LinearIs, OtherTables DEF OnlineInv, NamePart
  <2>1. /\ IsStack(dm') /\ DOMAIN dm' = DOMAIN dm
        /\ dm'["name"] = Device(Linear("overlay"))
        /\ \A m \in DOMAIN dm \ {"name"} : dm'[m] = dm[m]
    BY <1>0, <1>1, <2>0, ResumedIs DEF Exists
  <2>2. OnlineTypeOK' /\ TypePart'
    BY <1>0, <1>1, <2>1 DEF OnlineInv, OnlineTypeOK, TypePart, Exists, Steps, Stacked, Downward, Maps
  <2>3. OverlayFine'
    <3>1. HotzonePasses' => HotzonePasses
      BY <2>1 DEF HotzonePasses, Exists
    <3> QED
      BY <1>0, <1>1, <2>0, <2>1, <3>1, OverlayStays DEF Busy
  <2>4. NamePart'
    BY <1>0, <1>1, <2>1, <2>3, DeviceIs DEF NamePart, Exists, Stacked, Early
  <2>5. OverlayPart' /\ HotzonePart' /\ HdrPart'
    BY <1>0, <1>1, <2>1 DEF OnlineInv, OverlayPart, HotzonePart, HdrPart, Exists, Refresh, Busy
  <2>6. NoWriteLost'
    BY <1>0 DEF OnlineInv, NoWriteLost
  <2>7. StackPart'
    BY <1>0, <1>1, <2>1 DEF OnlineInv, StackPart, Undisturbed, Exists, Stacked, Early, Refresh, Busy, Helpers
  <2> QED
    BY <2>2, <2>4, <2>5, <2>6, <2>7 DEF OnlineInv
<1>2. CASE ~Exists(dm, "name") /\ dm' = Unstacked(dm) /\ End("failed") /\ UNCHANGED faults
  <2>1. {faults', deaths'} \subseteq Nat /\ ~Undisturbed'
    BY <1>0, <1>2, UnstackedIs DEF OnlineInv, TypePart, Undisturbed, Exists
  <2> QED
    BY <1>0, <1>2, <2>1, EndsUnstacked DEF End
<1>3. CASE Fault("resume") /\ dm' = Unstacked(dm) /\ End("failed")
  BY <1>0, <1>3, Faulty, EndsUnstacked DEF End
<1> QED
  BY <1>1, <1>2, <1>3 DEF SwitchName

-----------------------------------------------------------------------------
(* A hotzone                                                               *)

(* The next hotzone: its targets are loaded and the live ones stay.        *)
LEMMA LoadOverlayStep ==
    ASSUME OnlineInv, LoadOverlay
    PROVE  OnlineInv'
<1>0. /\ UNCHANGED <<hdr, area, disk, want, used, buf, deaths>>
      /\ pc = "next" /\ IsStack(dm) /\ Downward(dm) /\ pc \in Stacked
      /\ hot' \subseteq Sector \ hdr.done
  BY DEF LoadOverlay, At, kernel, OnlineInv, TypePart, Stacked, HotZone
<1>1. CASE /\ Exists(dm, "overlay")
           /\ dm' = Loaded(dm, "overlay", reencrypt_make_targets(hdr.done, hot'))
           /\ pc' = "suspend overlay" /\ UNCHANGED <<result, faults>>
  <2> DEFINE t == reencrypt_make_targets(hdr.done, hot')
  <2>0. t \in DevTables /\ t.over \subseteq {"data", "hotzone"}
    BY TargetsAre
  <2>1. /\ IsStack(dm') /\ DOMAIN dm' = DOMAIN dm
        /\ dm'["overlay"] = [live |-> dm["overlay"].live, load |-> t, susp |-> dm["overlay"].susp]
        /\ \A m \in DOMAIN dm \ {"overlay"} : dm'[m] = dm[m]
    <3>1. "overlay" \in DOMAIN dm /\ dm' = Loaded(dm, "overlay", t)
      BY <1>1 DEF Exists
    <3> HIDE DEF t
    <3>2. /\ IsStack(Loaded(dm, "overlay", t)) /\ DOMAIN Loaded(dm, "overlay", t) = DOMAIN dm
          /\ Loaded(dm, "overlay", t)["overlay"] = [live |-> dm["overlay"].live, load |-> t, susp |-> dm["overlay"].susp]
          /\ \A m \in DOMAIN dm \ {"overlay"} : Loaded(dm, "overlay", t)[m] = dm[m]
      BY <1>0, <2>0, <3>1, LoadedIs
    <3> QED
      BY <3>1, <3>2
  <2> HIDE DEF t
  <2>2. Downward(dm')
    BY <1>0, <2>0, <2>1 DEF Downward, Maps
  <2>3. OnlineTypeOK' /\ TypePart'
    BY <1>0, <1>1, <2>1, <2>2 DEF OnlineInv, OnlineTypeOK, TypePart, Exists, Steps, Stacked, Refresh
  <2>4. OverlayFine => OverlayFine'
    <3>1. HotzonePasses' => HotzonePasses
      BY <2>1 DEF HotzonePasses, Exists
    <3>2. dm'["overlay"].live = dm["overlay"].live /\ dm'["overlay"].susp = dm["overlay"].susp
      BY <2>1
    <3> QED
      BY <1>0, <1>1, <2>1, <3>1, <3>2, OverlayStays DEF Busy
  <2>5. NamePart'
    BY <1>0, <1>1, <2>1, <2>4 DEF OnlineInv, NamePart, Exists, Stacked, Early, Refresh, Busy
  <2>6. OverlayPart' /\ HotzonePart' /\ HdrPart'
    <3>1. OverlayPart'
      <4>1. dm'["overlay"].load = t
        BY <2>1
      <4> QED
        BY <1>0, <1>1, <4>1 DEF OverlayPart, Exists, Refresh, Busy, t
    <3>2. HotzonePart'
      BY <1>0, <1>1, <2>1 DEF OnlineInv, HotzonePart, Exists, Busy
    <3>3. HdrPart'
      BY <1>0, <1>1 DEF OnlineInv, HdrPart
    <3> QED
      BY <3>1, <3>2, <3>3
  <2>7. NoWriteLost'
    BY <1>0 DEF OnlineInv, NoWriteLost
  <2>8. StackPart'
    BY <1>0, <1>1, <2>1 DEF OnlineInv, StackPart, Undisturbed, Exists, Stacked, Early, Refresh, Busy, Helpers
  <2> QED
    BY <2>3, <2>5, <2>6, <2>7, <2>8 DEF OnlineInv
<1>2. ASSUME End("failed"), UNCHANGED dm, {faults', deaths'} \subseteq Nat, ~Undisturbed'
      PROVE  OnlineInv'
  <2>1. OnlineTypeOK' /\ TypePart'
    BY <1>0, <1>2 DEF OnlineInv, OnlineTypeOK, TypePart, Exists, Steps, IsStack, Downward, Maps, End
  <2>2. OverlayFine => OverlayFine'
    <3>1. HotzonePasses' => HotzonePasses
      BY <1>2 DEF HotzonePasses, Exists
    <3> QED
      BY <1>0, <1>2, <3>1, OverlayStays DEF Busy, End
  <2>3. NamePart'
    BY <1>0, <1>2, <2>2 DEF OnlineInv, NamePart, Exists, Stacked, Early, Refresh, Busy, End
  <2>4. OverlayPart' /\ HotzonePart' /\ HdrPart'
    BY <1>0, <1>2 DEF OnlineInv, OverlayPart, HotzonePart, HdrPart, Exists, Refresh, Busy, End
  <2>5. NoWriteLost' /\ StackPart'
    BY <1>0, <1>2 DEF OnlineInv, NoWriteLost, StackPart
  <2> QED
    BY <2>1, <2>3, <2>4, <2>5 DEF OnlineInv
<1>3. CASE ~Exists(dm, "overlay") /\ End("failed") /\ UNCHANGED <<dm, faults>>
  BY <1>0, <1>2, <1>3, Missing DEF Exists, Helpers
<1>4. CASE Fault("load") /\ End("failed") /\ UNCHANGED dm
  BY <1>0, <1>2, <1>4, Faulty
<1> QED
  BY <1>1, <1>3, <1>4 DEF LoadOverlay

(* A helper device that is not there, or a fault, while name is stacked.   *)
LEMMA HelperFails ==
    ASSUME OnlineInv, UNCHANGED <<dm, hdr, area, disk, want, used, hot, buf, deaths>>,
           pc \in Stacked, pc' = "idle",
           \/ UNCHANGED faults /\ \E d \in Helpers : ~Exists(dm, d)
           \/ \E at \in {"suspend", "resume", "read", "commit", "resume hotzone"} : Fault(at)
    PROVE  OnlineInv'
  BY Ends, Missing, Faulty DEF Exists, Helpers

(* Applications wait.                                                      *)
LEMMA SuspendOverlayStep ==
    ASSUME OnlineInv, SuspendOverlay
    PROVE  OnlineInv'
<1>0. /\ UNCHANGED <<hdr, area, disk, want, used, hot, buf, deaths>>
      /\ pc = "suspend overlay" /\ IsStack(dm) /\ Downward(dm) /\ pc \in Stacked
  BY DEF SuspendOverlay, SuspendHelper, At, kernel, OnlineInv, TypePart, Stacked, Refresh
<1>1. CASE /\ Exists(dm, "overlay") /\ dm' = SuspendedNow(dm, "overlay")
           /\ pc' = "suspend hotzone" /\ UNCHANGED <<result, faults>>
  <2>1. /\ IsStack(dm') /\ DOMAIN dm' = DOMAIN dm
        /\ dm'["overlay"] = [live |-> dm["overlay"].live, load |-> dm["overlay"].load, susp |-> TRUE]
        /\ \A m \in DOMAIN dm \ {"overlay"} : dm'[m] = dm[m]
    BY <1>0, <1>1, SuspendedIs DEF Exists
  <2>2. /\ dm'["overlay"].live = dm["overlay"].live /\ dm'["overlay"].load = dm["overlay"].load
        /\ dm'["overlay"].susp
    BY <2>1
  <2>3. OnlineTypeOK' /\ TypePart'
    BY <1>0, <1>1, <2>1, <2>2 DEF OnlineInv, OnlineTypeOK, TypePart, Exists, Steps, Stacked, Refresh, Downward, Maps
  <2>4. OverlayFine'
    BY <2>2 DEF OverlayFine
  <2>5. NamePart'
    BY <1>0, <1>1, <2>1, <2>4 DEF OnlineInv, NamePart, Exists, Stacked, Early, Refresh, Busy
  <2>6. OverlayPart' /\ HotzonePart' /\ HdrPart'
    BY <1>0, <1>1, <2>1, <2>2 DEF OnlineInv, OverlayPart, HotzonePart, HdrPart, Exists, Refresh, Busy
  <2>7. NoWriteLost'
    BY <1>0 DEF OnlineInv, NoWriteLost
  <2>8. StackPart'
    BY <1>0, <1>1, <2>1 DEF OnlineInv, StackPart, Undisturbed, Exists, Stacked, Early, Refresh, Busy, Helpers
  <2> QED
    BY <2>3, <2>5, <2>6, <2>7, <2>8 DEF OnlineInv
<1>2. CASE ~Exists(dm, "overlay") /\ End("failed") /\ UNCHANGED <<dm, faults>>
  BY <1>0, <1>2, HelperFails DEF End, Helpers
<1>3. CASE Fault("suspend") /\ End("failed") /\ UNCHANGED dm
  BY <1>0, <1>3, HelperFails DEF End
<1> QED
  BY <1>1, <1>2, <1>3 DEF SuspendOverlay, SuspendHelper

(* The hotzone device is suspended while the overlay is.                   *)
LEMMA SuspendHotzoneStep ==
    ASSUME OnlineInv, SuspendHotzone
    PROVE  OnlineInv'
<1>0. /\ UNCHANGED <<hdr, area, disk, want, used, hot, buf, deaths>>
      /\ pc = "suspend hotzone" /\ IsStack(dm) /\ Downward(dm) /\ pc \in Stacked
  BY DEF SuspendHotzone, SuspendHelper, At, kernel, OnlineInv, TypePart, Stacked, Refresh
<1>1. CASE /\ Exists(dm, "hotzone") /\ dm' = SuspendedNow(dm, "hotzone")
           /\ pc' = "resume overlay" /\ UNCHANGED <<result, faults>>
  <2>1. /\ IsStack(dm') /\ DOMAIN dm' = DOMAIN dm
        /\ dm'["hotzone"] = [live |-> dm["hotzone"].live, load |-> dm["hotzone"].load, susp |-> TRUE]
        /\ \A m \in DOMAIN dm \ {"hotzone"} : dm'[m] = dm[m]
    BY <1>0, <1>1, SuspendedIs DEF Exists
  <2>2. /\ dm'["hotzone"].live = dm["hotzone"].live /\ dm'["hotzone"].load = dm["hotzone"].load
        /\ dm'["hotzone"].susp
    BY <2>1
  <2>3. OnlineTypeOK' /\ TypePart'
    BY <1>0, <1>1, <2>1, <2>2 DEF OnlineInv, OnlineTypeOK, TypePart, Exists, Steps, Stacked, Refresh, Downward, Maps
  <2>4. ~HotzonePasses'
    BY <2>2 DEF HotzonePasses
  <2>5. OverlayFine => OverlayFine'
    BY <1>0, <1>1, <2>1, <2>4, OverlayStays DEF Busy
  <2>6. NamePart'
    BY <1>0, <1>1, <2>1, <2>5 DEF OnlineInv, NamePart, Exists, Stacked, Early, Refresh, Busy
  <2>7. OverlayPart' /\ HotzonePart' /\ HdrPart'
    BY <1>0, <1>1, <2>1, <2>2, <2>4 DEF OnlineInv, OverlayPart, HotzonePart, HdrPart, Exists, Refresh, Busy
  <2>8. NoWriteLost'
    BY <1>0 DEF OnlineInv, NoWriteLost
  <2>9. StackPart'
    BY <1>0, <1>1, <2>1 DEF OnlineInv, StackPart, Undisturbed, Exists, Stacked, Early, Refresh, Busy, Helpers
  <2> QED
    BY <2>3, <2>6, <2>7, <2>8, <2>9 DEF OnlineInv
<1>2. CASE ~Exists(dm, "hotzone") /\ End("failed") /\ UNCHANGED <<dm, faults>>
  BY <1>0, <1>2, HelperFails DEF End, Helpers
<1>3. CASE Fault("suspend") /\ End("failed") /\ UNCHANGED dm
  BY <1>0, <1>3, HelperFails DEF End
<1> QED
  BY <1>1, <1>2, <1>3 DEF SuspendHotzone, SuspendHelper

(* Applications go on, but for the hotzone: its device is suspended.       *)
LEMMA ResumeOverlayStep ==
    ASSUME OnlineInv, ResumeOverlay
    PROVE  OnlineInv'
<1>0. /\ UNCHANGED <<hdr, area, disk, want, used, hot, buf, deaths>>
      /\ pc = "resume overlay" /\ IsStack(dm) /\ Downward(dm) /\ pc \in Stacked
  BY DEF ResumeOverlay, At, kernel, OnlineInv, TypePart, Stacked, Refresh
<1>1. CASE /\ Exists(dm, "overlay") /\ dm' = Resumed(dm, "overlay")
           /\ pc' = "read" /\ UNCHANGED <<result, faults>>
  <2> DEFINE t == reencrypt_make_targets(hdr.done, hot)
  <2>0. /\ dm["overlay"].load = t /\ t # NoTable /\ t.over \subseteq {"data", "hotzone"}
        /\ hdr.hot = {} /\ hot \cap hdr.done = {} /\ ~HotzonePasses
    <3>1. t # NoTable /\ t.over \subseteq {"data", "hotzone"}
      BY TargetsAre, OtherTables
    <3>2. dm["overlay"].load = t
      BY <1>0, <1>1 DEF OnlineInv, OverlayPart, Refresh
    <3> QED
      BY <1>0, <3>1, <3>2 DEF OnlineInv, HdrPart, HotzonePart, Refresh
  <2>1. /\ IsStack(dm') /\ DOMAIN dm' = DOMAIN dm
        /\ dm'["overlay"] = Device(t)
        /\ \A m \in DOMAIN dm \ {"overlay"} : dm'[m] = dm[m]
    <3> HIDE DEF t
    <3>1. /\ IsStack(Resumed(dm, "overlay")) /\ DOMAIN Resumed(dm, "overlay") = DOMAIN dm
          /\ Resumed(dm, "overlay")["overlay"] =
               Device(IF dm["overlay"].load = NoTable THEN dm["overlay"].live ELSE dm["overlay"].load)
          /\ \A m \in DOMAIN dm \ {"overlay"} : Resumed(dm, "overlay")[m] = dm[m]
      BY <1>0, <1>1, ResumedIs DEF Exists
    <3> QED
      BY <1>1, <2>0, <3>1
  <2>2. dm'["overlay"].live = t /\ dm'["overlay"].load = NoTable
    BY <2>1, DeviceIs
  <2>3. Downward(dm')
    <3>1. Maps(dm', "overlay") \subseteq {"data", "hotzone"}
      BY <2>0, <2>2, OtherTables DEF Maps
    <3> QED
      BY <1>0, <2>1, <3>1 DEF Downward, Maps
  <2>4. OnlineTypeOK' /\ TypePart'
    BY <1>0, <1>1, <2>1, <2>3 DEF OnlineInv, OnlineTypeOK, TypePart, Exists, Steps, Stacked, Busy
  <2>5. ~HotzonePasses'
    BY <2>0, <2>1 DEF HotzonePasses, Exists
  <2>6. OverlayFine'
    <3>1. ASSUME NEW s \in Sector PROVE TargetFine(dm["overlay"].live.what[s], s)'
      <4>1. dm'["overlay"].live.what[s] = IF s \in hot THEN Target("hotzone", "new")
                                          ELSE Target("data", KeyNow(s))
        BY <2>2, TargetsAre DEF KeyNow
      <4>2. KeyNow(s)' = KeyNow(s) /\ (s \notin hot => Free(s)')
        BY <1>0, <2>0 DEF KeyNow, Free
      <4> QED
        BY <4>1, <4>2, <2>5, TargetIs DEF TargetFine
    <3> QED
      BY <3>1 DEF OverlayFine
  <2>7. NamePart'
    BY <1>0, <1>1, <2>1, <2>6 DEF OnlineInv, NamePart, Exists, Stacked, Early, Refresh, Busy
  <2>8. OverlayPart'
    BY <1>0, <1>1, <2>2 DEF OverlayPart, Exists, Refresh
  <2>9. HotzonePart' /\ HdrPart'
    BY <1>0, <1>1, <2>1, <2>5 DEF OnlineInv, HotzonePart, HdrPart, Exists, Refresh, Busy
  <2>10. NoWriteLost'
    BY <1>0 DEF OnlineInv, NoWriteLost
  <2>11. StackPart'
    BY <1>0, <1>1, <2>1 DEF OnlineInv, StackPart, Undisturbed, Exists, Stacked, Early, Refresh, Busy, Helpers
  <2> QED
    BY <2>4, <2>7, <2>8, <2>9, <2>10, <2>11 DEF OnlineInv
<1>2. CASE ~Exists(dm, "overlay") /\ End("failed") /\ UNCHANGED <<dm, faults>>
  BY <1>0, <1>2, HelperFails DEF End, Helpers
<1>3. CASE Fault("resume") /\ End("failed") /\ UNCHANGED dm
  BY <1>0, <1>3, HelperFails DEF End
<1> QED
  BY <1>1, <1>2, <1>3 DEF ResumeOverlay

(* The buffer has what the applications have written to the hotzone, which *)
(* they cannot change any more.                                            *)
LEMMA ReadHotzoneStep ==
    ASSUME OnlineInv, ReadHotzone
    PROVE  OnlineInv'
<1>0. /\ UNCHANGED <<dm, hdr, area, disk, want, used, hot, deaths>>
      /\ pc = "read" /\ pc \in Stacked
  BY DEF ReadHotzone, At, kernel, Stacked, Busy
<1>1. CASE buf' = [s \in hot |-> disk[s].val] /\ pc' = "commit hot" /\ UNCHANGED <<result, faults>>
  <2>1. OnlineTypeOK' /\ TypePart'
    BY <1>0, <1>1 DEF OnlineInv, OnlineTypeOK, TypePart, Exists, Steps, Stacked, Busy, IsStack, Downward, Maps
  <2>2. OverlayFine => OverlayFine'
    <3>1. HotzonePasses' => HotzonePasses
      BY <1>0 DEF HotzonePasses, Exists
    <3> QED
      BY <1>0, <1>1, <3>1, OverlayStays DEF Busy
  <2>3. NamePart'
    BY <1>0, <1>1, <2>2 DEF OnlineInv, NamePart, Exists, Stacked, Early, Refresh, Busy
  <2>4. OverlayPart' /\ HotzonePart'
    BY <1>0, <1>1 DEF OnlineInv, OverlayPart, HotzonePart, HotzonePasses, Exists, Refresh, Busy
  <2>5. HdrPart'
    <3>1. ASSUME NEW s \in hot PROVE disk[s].val = want[s]
      <4>1. s \in Sector /\ s \notin hdr.hot
        BY <1>0 DEF OnlineInv, TypePart, HdrPart
      <4>2. disk[s] = [key |-> KeyNow(s), val |-> want[s]]
        BY <4>1 DEF OnlineInv, NoWriteLost, KeyNow
      <4> QED
        BY <4>2
    <3>2. \A s \in hot : buf'[s] = want[s]
      BY <1>1, <3>1
    <3> QED
      BY <1>0, <1>1, <3>2 DEF OnlineInv, HdrPart, Refresh, Busy
  <2>6. NoWriteLost'
    BY <1>0 DEF OnlineInv, NoWriteLost
  <2>7. StackPart'
    BY <1>0, <1>1 DEF OnlineInv, StackPart, Undisturbed, Exists, Stacked, Early, Refresh, Busy, Helpers
  <2> QED
    BY <2>1, <2>3, <2>4, <2>5, <2>6, <2>7 DEF OnlineInv
<1>2. CASE Fault("read") /\ End("failed") /\ UNCHANGED buf
  BY <1>0, <1>2, HelperFails DEF End
<1> QED
  BY <1>1, <1>2 DEF ReadHotzone

(* The area and the header have the hotzone.                               *)
LEMMA CommitHotStep ==
    ASSUME OnlineInv, CommitHot
    PROVE  OnlineInv'
<1>0. /\ UNCHANGED <<dm, disk, want, used, hot, buf, deaths>>
      /\ pc = "commit hot" /\ pc \in Stacked
  BY DEF CommitHot, At, kernel, Stacked, Busy
<1>1. CASE /\ area' = buf /\ hdr' = [hdr EXCEPT !.hot = hot]
           /\ pc' = "write" /\ UNCHANGED <<result, faults>>
  <2>0. /\ hdr \in [done : SUBSET Sector, hot : SUBSET Sector, flag : BOOLEAN]
        /\ hdr.hot = {} /\ hot \cap hdr.done = {} /\ hot \subseteq Sector
        /\ \A s \in hot : buf[s] = want[s]
    BY <1>0 DEF OnlineInv, OnlineTypeOK, TypePart, HdrPart, Busy
  <2>1. /\ hdr' \in [done : SUBSET Sector, hot : SUBSET Sector, flag : BOOLEAN]
        /\ hdr'.done = hdr.done /\ hdr'.hot = hot
    BY <1>1, <2>0
  <2>2. OnlineTypeOK'
    BY <1>0, <2>0, <2>1 DEF OnlineInv, OnlineTypeOK, Exists
  <2>3. TypePart'
    BY <1>0, <1>1, <2>0, <2>1 DEF OnlineInv, TypePart, Steps, Stacked, Busy, IsStack, Downward, Maps
  <2>4. OverlayFine => OverlayFine'
    <3>1. HotzonePasses' = HotzonePasses
      BY <1>0 DEF HotzonePasses, Exists
    <3>2. \A s \in Sector : KeyNow(s)' = KeyNow(s) /\ (Free(s) => Free(s)')
      BY <1>0, <1>1, <2>1 DEF KeyNow, Free, Busy
    <3>3. SUFFICES ASSUME OverlayFine, Exists(dm, "overlay"), ~dm["overlay"].susp, NEW s \in Sector
                   PROVE  TargetFine(dm["overlay"].live.what[s], s)'
      BY <1>0 DEF OverlayFine, Exists
    <3>4. TargetFine(dm["overlay"].live.what[s], s)
      BY <3>3 DEF OverlayFine
    <3> QED
      BY <1>0, <2>1, <3>1, <3>2, <3>4 DEF TargetFine
  <2>5. NamePart'
    BY <1>0, <1>1, <2>1, <2>4 DEF OnlineInv, NamePart, Exists, Stacked, Early, Refresh, Busy
  <2>6. OverlayPart' /\ HotzonePart'
    BY <1>0, <1>1, <2>1 DEF OnlineInv, OverlayPart, HotzonePart, HotzonePasses, Exists, Refresh, Busy
  <2>7. ASSUME NEW s \in hot PROVE disk[s].key = "old"
    <3>1. s \in Sector /\ s \notin hdr.hot /\ s \notin hdr.done
      BY <2>0
    <3>2. disk[s] = [key |-> "old", val |-> want[s]]
      BY <3>1 DEF OnlineInv, NoWriteLost
    <3> QED
      BY <3>2
  <2>8. HdrPart'
    BY <1>0, <1>1, <2>0, <2>1, <2>7 DEF HdrPart, Refresh, Busy
  <2>9. NoWriteLost'
    BY <1>0, <1>1, <2>0, <2>1 DEF OnlineInv, NoWriteLost
  <2>10. StackPart'
    BY <1>0, <1>1, <2>1 DEF OnlineInv, StackPart, Undisturbed, Exists, Stacked, Early, Refresh, Busy, Helpers
  <2> QED
    BY <2>2, <2>3, <2>5, <2>6, <2>8, <2>9, <2>10 DEF OnlineInv
<1>2. CASE Fault("commit") /\ End("failed") /\ UNCHANGED <<hdr, area>>
  BY <1>0, <1>2, HelperFails DEF End
<1> QED
  BY <1>1, <1>2 DEF CommitHot

(* A sector of the hotzone gets the new key; the others and the header     *)
(* stay.                                                                   *)
LEMMA WriteHotzoneStep ==
    ASSUME OnlineInv, WriteHotzone
    PROVE  OnlineInv'
<1>0. /\ UNCHANGED <<dm, want, hdr, area, pc, hot, buf, used, result, faults, deaths>>
      /\ pc = "write" /\ hdr.hot = hot /\ hot \subseteq Sector
      /\ disk \in [Sector -> [key : {"old", "new"}, val : Content]]
      /\ want \in [Sector -> Content]
      /\ \A s \in hot : buf[s] = want[s]
  BY DEF WriteHotzone, At, OnlineInv, OnlineTypeOK, TypePart, HdrPart
<1>1. PICK s \in Unwritten : disk' = [disk EXCEPT ![s] = [key |-> "new", val |-> buf[s]]]
  BY DEF WriteHotzone
<1>2. s \in hot /\ s \in Sector /\ want[s] \in Content /\ buf[s] = want[s]
  BY <1>0 DEF Unwritten
<1>3. /\ disk' \in [Sector -> [key : {"old", "new"}, val : Content]]
      /\ disk'[s] = [key |-> "new", val |-> want[s]]
      /\ \A x \in Sector \ {s} : disk'[x] = disk[x]
  BY <1>0, <1>1, <1>2
<1>4. OnlineTypeOK' /\ TypePart'
  BY <1>0, <1>3 DEF OnlineInv, OnlineTypeOK, TypePart, Exists, IsStack, Downward, Maps
<1>5. OverlayFine => OverlayFine'
  <2>1. HotzonePasses' => HotzonePasses
    BY <1>0 DEF HotzonePasses, Exists
  <2> QED
    BY <1>0, <2>1, OverlayStays
<1>6. NamePart'
  BY <1>0, <1>5 DEF OnlineInv, NamePart, Exists
<1>7. OverlayPart' /\ HotzonePart' /\ StackPart'
  BY <1>0 DEF OnlineInv, OverlayPart, HotzonePart, HotzonePasses, StackPart, Undisturbed, Exists
<1>8. HdrPart'
  <2>1. \A x \in hot : disk'[x].key = "new" => disk'[x].val = want[x]
    BY <1>0, <1>2, <1>3 DEF OnlineInv, HdrPart
  <2> QED
    BY <1>0, <2>1 DEF OnlineInv, HdrPart
<1>9. NoWriteLost'
  BY <1>0, <1>2, <1>3 DEF OnlineInv, NoWriteLost
<1> QED
  BY <1>4, <1>6, <1>7, <1>8, <1>9 DEF OnlineInv

(* A write that fails leaves the hotzone behind an error table.            *)
LEMMA WriteFailsStep ==
    ASSUME OnlineInv, WriteFails
    PROVE  OnlineInv'
  BY Faulty, EndsFatal DEF WriteFails, At, End, kernel

(* The hotzone is done, all of its sectors being under the new key.        *)
LEMMA CommitPostStep ==
    ASSUME OnlineInv, CommitPost
    PROVE  OnlineInv'
<1>0. /\ UNCHANGED <<area, disk, want, used, hot, buf, deaths>>
      /\ pc = "write" /\ pc \in Stacked /\ Unwritten = {}
      /\ hdr \in [done : SUBSET Sector, hot : SUBSET Sector, flag : BOOLEAN]
      /\ disk \in [Sector -> [key : {"old", "new"}, val : Content]]
      /\ hdr.hot = hot /\ hot \subseteq Sector /\ hot \cap hdr.done = {}
  BY DEF CommitPost, At, kernel, Stacked, Busy, OnlineInv, OnlineTypeOK, TypePart, HdrPart
<1>1. CASE /\ hdr' = [hdr EXCEPT !.done = @ \cup hot, !.hot = {}]
           /\ pc' = "resume hotzone" /\ UNCHANGED <<dm, result, faults>>
  <2>1. /\ hdr' \in [done : SUBSET Sector, hot : SUBSET Sector, flag : BOOLEAN]
        /\ hdr'.done = hdr.done \cup hot /\ hdr'.hot = {}
    BY <1>0, <1>1
  <2>2. OnlineTypeOK'
    BY <1>0, <1>1, <2>1 DEF OnlineInv, OnlineTypeOK, Exists
  <2>3. TypePart'
    BY <1>0, <1>1, <2>1 DEF OnlineInv, TypePart, Steps, Stacked, IsStack, Downward, Maps
  <2>4. HotzonePasses' = HotzonePasses /\ ~HotzonePasses
    BY <1>0, <1>1 DEF OnlineInv, HotzonePart, HotzonePasses, Exists, Busy
  <2>5. OverlayFine => OverlayFine'
    <3>1. SUFFICES ASSUME OverlayFine, Exists(dm, "overlay"), ~dm["overlay"].susp, NEW s \in Sector
                   PROVE  TargetFine(dm["overlay"].live.what[s], s)'
      BY <1>1 DEF OverlayFine, Exists
    <3>2. TargetFine(dm["overlay"].live.what[s], s)
      BY <3>1 DEF OverlayFine
    <3>3. Free(s)' /\ (Free(s) => KeyNow(s)' = KeyNow(s))
      BY <1>0, <1>1, <2>1 DEF KeyNow, Free, Busy
    <3> QED
      BY <1>1, <2>4, <3>2, <3>3 DEF TargetFine
  <2>6. NamePart'
    BY <1>0, <1>1, <2>1, <2>5 DEF OnlineInv, NamePart, Exists, Stacked, Early, Refresh, Busy
  <2>7. OverlayPart'
    <3>1. SUFFICES ASSUME Exists(dm, "overlay"), NEW s \in Sector,
                          dm["overlay"].live.what[s].dev = "hotzone"
                   PROVE  s \in hdr'.done
      BY <1>0, <1>1 DEF OverlayPart, Exists, Refresh, Busy
    <3>2. dm["overlay"].live = reencrypt_make_targets(hdr.done, hot)
      BY <1>0, <3>1 DEF OnlineInv, OverlayPart, Busy
    <3>3. dm["overlay"].live.what[s] = IF s \in hot THEN Target("hotzone", "new")
                                       ELSE Target("data", KeyNow(s))
      BY <3>2, TargetsAre DEF KeyNow
    <3> QED
      BY <2>1, <3>1, <3>3, TargetIs
  <2>8. HotzonePart' /\ HdrPart'
    BY <1>0, <1>1, <2>1 DEF OnlineInv, HotzonePart, HdrPart, Exists, Refresh, Busy
  <2>9. NoWriteLost'
    <3>1. ASSUME NEW s \in Sector
          PROVE  disk'[s] = [key |-> IF s \in hdr'.done THEN "new" ELSE "old", val |-> want'[s]]
      <4>1. CASE s \in hot
        <5>1. disk[s].key = "new" /\ disk[s].val = want[s]
          BY <1>0, <4>1 DEF Unwritten, OnlineInv, HdrPart
        <5>2. disk[s] = [key |-> disk[s].key, val |-> disk[s].val]
          BY <1>0
        <5> QED
          BY <1>0, <2>1, <4>1, <5>1, <5>2
      <4>2. CASE s \notin hot
        BY <1>0, <2>1, <4>2 DEF OnlineInv, NoWriteLost
      <4> QED
        BY <4>1, <4>2
    <3> QED
      BY <2>1, <3>1 DEF NoWriteLost
  <2>10. StackPart'
    BY <1>0, <1>1, <2>1 DEF OnlineInv, StackPart, Undisturbed, Exists, Stacked, Early, Refresh, Busy, Helpers
  <2> QED
    BY <2>2, <2>3, <2>6, <2>7, <2>8, <2>9, <2>10 DEF OnlineInv
<1>2. CASE Fault("commit") /\ dm' = FatalDevices /\ End("failed") /\ UNCHANGED hdr
  BY <1>0, <1>2, Faulty, EndsFatal DEF End
<1> QED
  BY <1>1, <1>2 DEF CommitPost

(* Applications reach the hotzone again, with the new key.                 *)
LEMMA ResumeHotzoneStep ==
    ASSUME OnlineInv, ResumeHotzone
    PROVE  OnlineInv'
<1>0. /\ UNCHANGED <<hdr, area, disk, want, used, hot, buf, deaths>>
      /\ pc = "resume hotzone" /\ IsStack(dm) /\ Downward(dm) /\ pc \in Stacked
  BY DEF ResumeHotzone, At, kernel, OnlineInv, TypePart, Stacked
<1>1. CASE /\ Exists(dm, "hotzone") /\ dm' = Resumed(dm, "hotzone")
           /\ pc' \in {"next", "reload name"} /\ UNCHANGED <<result, faults>>
  <2>0. /\ dm["hotzone"].load = NoTable /\ dm["hotzone"].live \in {Linear("data"), ErrorTable}
        /\ hdr.hot = {}
    BY <1>0, <1>1 DEF OnlineInv, HotzonePart, HdrPart
  <2>1. /\ IsStack(dm') /\ DOMAIN dm' = DOMAIN dm
        /\ dm'["hotzone"] = Device(dm["hotzone"].live)
        /\ \A m \in DOMAIN dm \ {"hotzone"} : dm'[m] = dm[m]
    BY <1>0, <1>1, <2>0, ResumedIs DEF Exists
  <2>2. dm'["hotzone"].live = dm["hotzone"].live /\ dm'["hotzone"].load = NoTable
    BY <2>1, DeviceIs
  <2>3. Downward(dm')
    BY <1>0, <2>0, <2>1, <2>2 DEF Downward, Maps
  <2>4. OnlineTypeOK' /\ TypePart'
    BY <1>0, <1>1, <2>1, <2>3 DEF OnlineInv, OnlineTypeOK, TypePart, Exists, Steps, Stacked
  <2>5. OverlayFine => OverlayFine'
    <3>1. SUFFICES ASSUME OverlayFine, Exists(dm, "overlay"), ~dm["overlay"].susp, NEW s \in Sector
                   PROVE  TargetFine(dm["overlay"].live.what[s], s)'
      BY <2>1 DEF OverlayFine, Exists
    <3>2. TargetFine(dm["overlay"].live.what[s], s) /\ dm'["overlay"] = dm["overlay"]
      BY <2>1, <3>1 DEF OverlayFine, Exists
    <3>3. Free(s)' /\ KeyNow(s)' = KeyNow(s)
      BY <1>0, <1>1, <2>0 DEF KeyNow, Free, Busy
    <3>4. dm["overlay"].live.what[s].dev = "hotzone" => s \in hdr.done
      BY <1>0, <3>1 DEF OnlineInv, OverlayPart
    <3> QED
      BY <1>0, <3>2, <3>3, <3>4 DEF TargetFine
  <2>6. NamePart'
    BY <1>0, <1>1, <2>1, <2>5 DEF OnlineInv, NamePart, Exists, Stacked, Early, Refresh, Busy
  <2>7. OverlayPart' /\ HotzonePart' /\ HdrPart'
    BY <1>0, <1>1, <2>0, <2>1, <2>2 DEF OnlineInv, OverlayPart, HotzonePart, HdrPart, Exists, Refresh, Busy
  <2>8. NoWriteLost'
    BY <1>0 DEF OnlineInv, NoWriteLost
  <2>9. StackPart'
    BY <1>0, <1>1, <2>1 DEF OnlineInv, StackPart, Undisturbed, Exists, Stacked, Early, Refresh, Busy, Helpers
  <2> QED
    BY <2>4, <2>6, <2>7, <2>8, <2>9 DEF OnlineInv
<1>2. CASE ~Exists(dm, "hotzone") /\ End("failed") /\ UNCHANGED <<dm, faults>>
  BY <1>0, <1>2, HelperFails DEF End, Helpers
<1>3. CASE Fault("resume hotzone") /\ End("failed") /\ UNCHANGED dm
  BY <1>0, <1>3, HelperFails DEF End
<1> QED
  BY <1>1, <1>2, <1>3 DEF ResumeHotzone

-----------------------------------------------------------------------------
(* The stack is taken down                                                 *)

(* The process takes no further hotzone.                                   *)
LEMMA LoopEndsStep ==
    ASSUME OnlineInv, LoopEnds
    PROVE  OnlineInv'
<1>0. /\ UNCHANGED <<dm, hdr, area, disk, want, used, hot, buf, faults, deaths>>
      /\ pc = "next" /\ pc' = "reload name"
  BY DEF LoopEnds, At, kernel, Fine
<1>1. OnlineTypeOK' /\ TypePart'
  BY <1>0 DEF OnlineInv, OnlineTypeOK, TypePart, Exists, Steps, Stacked, IsStack, Downward, Maps
<1>2. OverlayFine => OverlayFine'
  <2>1. HotzonePasses' => HotzonePasses
    BY <1>0 DEF HotzonePasses, Exists
  <2> QED
    BY <1>0, <2>1, OverlayStays DEF Busy
<1>3. NamePart'
  BY <1>0, <1>2 DEF OnlineInv, NamePart, Exists, Stacked, Early, Refresh, Busy
<1>4. OverlayPart' /\ HotzonePart' /\ HdrPart'
  BY <1>0 DEF OnlineInv, OverlayPart, HotzonePart, HdrPart, Exists, Refresh, Busy
<1>5. NoWriteLost'
  BY <1>0 DEF OnlineInv, NoWriteLost
<1>6. StackPart'
  BY <1>0 DEF OnlineInv, StackPart, Undisturbed, Exists, Stacked, Early, Refresh, Busy, Helpers
<1> QED
  BY <1>1, <1>3, <1>4, <1>5, <1>6 DEF OnlineInv

(* What fails while `name' is reloaded is logged.                          *)
LEMMA ReloadFails ==
    ASSUME OnlineInv, UNCHANGED <<dm, hdr, area, disk, want, used, hot, buf>>,
           pc \in {"reload name", "resume name"}, pc' = "remove helpers",
           {faults', deaths'} \subseteq Nat, ~Undisturbed'
    PROVE  OnlineInv'
<1>1. OnlineTypeOK' /\ TypePart'
  BY DEF OnlineInv, OnlineTypeOK, TypePart, Exists, Steps, IsStack, Downward, Maps
<1>2. OverlayFine => OverlayFine'
  <2>1. HotzonePasses' => HotzonePasses
    BY DEF HotzonePasses, Exists
  <2> QED
    BY <2>1, OverlayStays DEF Busy
<1>3. NamePart'
  BY <1>2 DEF OnlineInv, NamePart, Exists, Stacked, Early, Refresh, Busy
<1>4. OverlayPart' /\ HotzonePart' /\ HdrPart'
  BY DEF OnlineInv, OverlayPart, HotzonePart, HdrPart, Exists, Refresh, Busy
<1>5. NoWriteLost' /\ StackPart'
  BY DEF OnlineInv, NoWriteLost, StackPart
<1> QED
  BY <1>1, <1>3, <1>4, <1>5 DEF OnlineInv

(* `name' gets the table of the header's segments as its next one.         *)
LEMMA ReloadNameStep ==
    ASSUME OnlineInv, ReloadName
    PROVE  OnlineInv'
<1>0. /\ UNCHANGED <<hdr, area, disk, want, used, hot, buf, deaths>>
      /\ pc = "reload name" /\ IsStack(dm) /\ Downward(dm)
  BY DEF ReloadName, At, kernel, OnlineInv, TypePart
<1>1. CASE /\ Exists(dm, "name") /\ dm' = Loaded(dm, "name", SegmentTable(hdr.done))
           /\ pc' = "resume name" /\ UNCHANGED <<result, faults>>
  <2> DEFINE t == SegmentTable(hdr.done)
  <2>0. t \in DevTables /\ dm' = Loaded(dm, "name", t) /\ "name" \in DOMAIN dm
    BY <1>1, SegmentTableIs DEF Exists
  <2>1. /\ IsStack(dm') /\ DOMAIN dm' = DOMAIN dm
        /\ dm'["name"] = [live |-> dm["name"].live, load |-> t, susp |-> dm["name"].susp]
        /\ \A m \in DOMAIN dm \ {"name"} : dm'[m] = dm[m]
    <3> HIDE DEF t
    <3> QED
      BY <1>0, <2>0, LoadedIs
  <2>2. /\ dm'["name"].live = dm["name"].live /\ dm'["name"].load = t
        /\ dm'["name"].susp = dm["name"].susp
    BY <2>1
  <2>3. OnlineTypeOK' /\ TypePart'
    BY <1>0, <1>1, <2>1 DEF OnlineInv, OnlineTypeOK, TypePart, Exists, Steps, Stacked, Downward, Maps
  <2>4. OverlayFine => OverlayFine'
    <3>1. HotzonePasses' => HotzonePasses
      BY <2>1 DEF HotzonePasses, Exists
    <3> QED
      BY <1>0, <1>1, <2>1, <3>1, OverlayStays DEF Busy
  <2>5. NamePart'
    BY <1>0, <1>1, <2>1, <2>2, <2>4 DEF OnlineInv, NamePart, Exists, Stacked, Early, Refresh, Busy
  <2>6. OverlayPart' /\ HotzonePart' /\ HdrPart'
    BY <1>0, <1>1, <2>1 DEF OnlineInv, OverlayPart, HotzonePart, HdrPart, Exists, Refresh, Busy
  <2>7. NoWriteLost'
    BY <1>0 DEF OnlineInv, NoWriteLost
  <2>8. StackPart'
    BY <1>0, <1>1, <2>1 DEF OnlineInv, StackPart, Undisturbed, Exists, Stacked, Early, Refresh, Busy, Helpers
  <2> QED
    BY <2>3, <2>5, <2>6, <2>7, <2>8 DEF OnlineInv
<1>2. CASE ~Exists(dm, "name") /\ pc' = "remove helpers" /\ UNCHANGED <<dm, result, faults>>
  BY <1>0, <1>2, Missing, ReloadFails
<1>3. CASE Fault("reload name") /\ pc' = "remove helpers" /\ UNCHANGED <<dm, result>>
  BY <1>0, <1>3, Faulty, ReloadFails
<1> QED
  BY <1>1, <1>2, <1>3 DEF ReloadName

(* `name' needs the helper devices no more.                                *)
LEMMA ResumeNameStep ==
    ASSUME OnlineInv, ResumeName
    PROVE  OnlineInv'
<1>0. /\ UNCHANGED <<hdr, area, disk, want, used, hot, buf, deaths>>
      /\ pc = "resume name" /\ pc' = "remove helpers" /\ IsStack(dm) /\ Downward(dm)
  BY DEF ResumeName, At, kernel, OnlineInv, TypePart
<1>1. CASE Exists(dm, "name") /\ dm' = Resumed(dm, "name") /\ UNCHANGED faults
  <2> DEFINE t == SegmentTable(hdr.done)
  <2>0. dm["name"].load = t /\ t # NoTable /\ "name" \in DOMAIN dm /\ hdr.hot = {}
    BY <1>0, <1>1, SegmentTableIs, OtherTables DEF OnlineInv, NamePart, HdrPart, Exists
  <2>1. /\ IsStack(dm') /\ DOMAIN dm' = DOMAIN dm
        /\ dm'["name"] = Device(t)
        /\ \A m \in DOMAIN dm \ {"name"} : dm'[m] = dm[m]
    <3> HIDE DEF t
    <3> QED
      BY <1>0, <1>1, <2>0, ResumedIs
  <2>2. OnlineTypeOK' /\ TypePart'
    BY <1>0, <1>1, <2>1 DEF OnlineInv, OnlineTypeOK, TypePart, Exists, Steps, Downward, Maps
  <2>3. NamePart'
    BY <1>0, <2>0, <2>1, DeviceIs DEF NamePart, Stacked, Refresh, Busy
  <2>4. OverlayPart' /\ HotzonePart' /\ HdrPart'
    BY <1>0, <1>1, <2>1 DEF OnlineInv, OverlayPart, HotzonePart, HdrPart, Exists, Refresh, Busy
  <2>5. NoWriteLost'
    BY <1>0 DEF OnlineInv, NoWriteLost
  <2>6. StackPart'
    BY <1>0, <1>1, <2>1 DEF StackPart, Stacked, Refresh, Busy
  <2> QED
    BY <2>2, <2>3, <2>4, <2>5, <2>6 DEF OnlineInv
<1>2. CASE ~Exists(dm, "name") /\ UNCHANGED <<dm, faults>>
  BY <1>0, <1>2, Missing, ReloadFails
<1>3. CASE Fault("reload name") /\ UNCHANGED dm
  BY <1>0, <1>3, Faulty, ReloadFails
<1> QED
  BY <1>1, <1>2, <1>3 DEF ResumeName

(* The helper devices are removed unless `name' still maps them.           *)
LEMMA RemoveHelpersStep ==
    ASSUME OnlineInv, RemoveHelpers
    PROVE  OnlineInv'
<1>0. /\ UNCHANGED <<area, disk, want, used, hot, buf, faults, deaths>>
      /\ pc = "remove helpers" /\ pc' = "idle" /\ IsStack(dm) /\ Downward(dm)
      /\ dm' = Unstacked(dm) /\ hdr' = [hdr EXCEPT !.flag = hdr.done # Sector]
      /\ hdr \in [done : SUBSET Sector, hot : SUBSET Sector, flag : BOOLEAN]
      /\ hdr.hot = {} /\ NamePart
  BY DEF RemoveHelpers, At, End, kernel, Fine, OnlineInv, TypePart, OnlineTypeOK, HdrPart
<1>1. /\ hdr' \in [done : SUBSET Sector, hot : SUBSET Sector, flag : BOOLEAN]
      /\ hdr'.done = hdr.done /\ hdr'.hot = {}
  BY <1>0
<1>2. /\ IsStack(dm') /\ Downward(dm')
      /\ DOMAIN dm' \subseteq DOMAIN dm /\ ("name" \in DOMAIN dm => "name" \in DOMAIN dm')
      /\ \A m \in DOMAIN dm' : dm'[m] = dm[m]
      /\ ("name" \in DOMAIN dm => Maps(dm, "name") \subseteq {"data"}) => DOMAIN dm' \subseteq {"name"}
  BY <1>0, UnstackedIs
<1>3. OnlineTypeOK' /\ TypePart'
  BY <1>0, <1>1, <1>2 DEF OnlineInv, OnlineTypeOK, TypePart, Exists, Steps
<1>4. OverlayFine => OverlayFine'
  <2>1. SUFFICES ASSUME OverlayFine, "overlay" \in DOMAIN dm', ~dm'["overlay"].susp, NEW s \in Sector
                 PROVE  TargetFine(dm["overlay"].live.what[s], s)'
    BY DEF OverlayFine, Exists
  <2>2. dm'["overlay"] = dm["overlay"] /\ TargetFine(dm["overlay"].live.what[s], s)
    BY <1>2, <2>1 DEF OverlayFine, Exists
  <2>3. Free(s)' /\ KeyNow(s)' = KeyNow(s) /\ (HotzonePasses' => HotzonePasses)
    BY <1>0, <1>1, <1>2 DEF Free, KeyNow, HotzonePasses, Exists, Busy
  <2> QED
    BY <1>1, <2>2, <2>3 DEF TargetFine
<1>5. NamePart'
  BY <1>0, <1>1, <1>2, <1>4 DEF NamePart, Exists, Stacked, Early, Refresh, Busy
<1>6. OverlayPart' /\ HotzonePart' /\ HdrPart'
  BY <1>0, <1>1, <1>2 DEF OnlineInv, OverlayPart, HotzonePart, HdrPart, Exists, Refresh, Busy
<1>7. NoWriteLost'
  BY <1>0, <1>1 DEF OnlineInv, NoWriteLost
<1>8. StackPart'
  <2>1. SUFFICES ASSUME Undisturbed'
                 PROVE  /\ dm'["name"] = Device(SegmentTable(hdr.done))
                        /\ DOMAIN dm' \subseteq {"name"}
    BY <1>0, <1>1 DEF StackPart, Stacked, Refresh, Busy, Helpers, Exists
  <2>2. "name" \in DOMAIN dm /\ dm["name"] = Device(SegmentTable(hdr.done))
    BY <1>0, <1>2, <2>1 DEF OnlineInv, StackPart, Undisturbed, Exists
  <2>3. Maps(dm, "name") \subseteq {"data"}
    BY <2>2, DeviceIs, SegmentTableIs, OtherTables DEF Maps
  <2> QED
    BY <1>2, <2>2, <2>3
<1> QED
  BY <1>3, <1>5, <1>6, <1>7, <1>8 DEF OnlineInv

(* The process dies: the devices and the header stay as they are.          *)
LEMMA DieStep ==
    ASSUME OnlineInv, Die
    PROVE  OnlineInv'
<1>1. {faults', deaths'} \subseteq Nat /\ ~Undisturbed'
  BY DEF Die, OnlineInv, TypePart, Undisturbed
<1> QED
  BY <1>1, Ends DEF Die, End, kernel

-----------------------------------------------------------------------------
(* Other processes                                                         *)

(* Applications open and close `name'.                                     *)
LEMMA OpenCloseStep ==
    ASSUME OnlineInv, Open \/ Close
    PROVE  OnlineInv'
<1>0. /\ UNCHANGED <<dm, disk, want, hdr, area, pc, hot, buf, result, faults, deaths>>
      /\ used' => Exists(dm, "name")
  BY DEF Open, Close
<1>1. OnlineTypeOK' /\ TypePart'
  BY <1>0 DEF OnlineInv, OnlineTypeOK, TypePart, Exists, IsStack, Downward, Maps
<1>2. OverlayFine => OverlayFine'
  <2>1. HotzonePasses' => HotzonePasses
    BY <1>0 DEF HotzonePasses, Exists
  <2> QED
    BY <1>0, <2>1, OverlayStays
<1>3. NamePart'
  BY <1>0, <1>2 DEF OnlineInv, NamePart, Exists
<1>4. OverlayPart' /\ HotzonePart' /\ StackPart'
  BY <1>0 DEF OnlineInv, OverlayPart, HotzonePart, HotzonePasses, StackPart, Undisturbed, Exists
<1>5. HdrPart' /\ NoWriteLost'
  BY <1>0 DEF OnlineInv, HdrPart, NoWriteLost
<1> QED
  BY <1>1, <1>3, <1>4, <1>5 DEF OnlineInv

(* A write of an application, if it reaches the data device, is for a      *)
(* sector that the process has not read, and has the key of the header.    *)
LEMMA AppWriteStep ==
    ASSUME OnlineInv, AppWrite
    PROVE  OnlineInv'
<1>0. /\ UNCHANGED <<dm, hdr, area, pc, hot, buf, used, result, faults, deaths>>
      /\ Exists(dm, "name") /\ hot \subseteq Sector
      /\ disk \in [Sector -> [key : {"old", "new"}, val : Content]]
      /\ hdr \in [done : SUBSET Sector, hot : SUBSET Sector, flag : BOOLEAN]
      /\ want \in [Sector -> Content]
  BY DEF AppWrite, OnlineInv, OnlineTypeOK, TypePart
<1>1. PICK s \in Sector :
         /\ Reaches(s)
         /\ want' = [want EXCEPT ![s] = 1 - @]
         /\ disk' = [disk EXCEPT ![s] = [key |-> Route(s).key, val |-> want'[s]]]
  BY DEF AppWrite
<1>2. Free(s) /\ Route(s).key = KeyNow(s)
  BY <1>0, <1>1, Routed
<1>3. /\ want' \in [Sector -> Content] /\ \A x \in Sector \ {s} : want'[x] = want[x]
  BY <1>0, <1>1 DEF Content
<1>4. /\ disk' \in [Sector -> [key : {"old", "new"}, val : Content]]
      /\ disk'[s] = [key |-> KeyNow(s), val |-> want'[s]]
      /\ \A x \in Sector \ {s} : disk'[x] = disk[x]
  BY <1>0, <1>1, <1>2, <1>3 DEF KeyNow
<1>5. OnlineTypeOK' /\ TypePart'
  BY <1>0, <1>3, <1>4 DEF OnlineInv, OnlineTypeOK, TypePart, Exists, IsStack, Downward, Maps
<1>6. OverlayFine => OverlayFine'
  <2>1. HotzonePasses' => HotzonePasses
    BY <1>0 DEF HotzonePasses, Exists
  <2> QED
    BY <1>0, <2>1, OverlayStays
<1>7. NamePart'
  BY <1>0, <1>6 DEF OnlineInv, NamePart, Exists
<1>8. OverlayPart' /\ HotzonePart' /\ StackPart'
  BY <1>0 DEF OnlineInv, OverlayPart, HotzonePart, HotzonePasses, StackPart, Undisturbed, Exists
<1>9. HdrPart'
  <2>1. pc \in {"commit hot", "write"} => s \notin hot
    BY <1>2 DEF Free, Busy
  <2>2. pc \in {"commit hot", "write"} => \A x \in hot : want'[x] = want[x] /\ disk'[x] = disk[x]
    BY <1>0, <1>3, <1>4, <2>1
  <2> QED
    BY <1>0, <2>2 DEF OnlineInv, HdrPart
<1>10. NoWriteLost'
  <2>1. SUFFICES ASSUME NEW x \in Sector
                 PROVE  IF x \in hdr.hot THEN area[x] = want'[x]
                        ELSE disk'[x] = [key |-> IF x \in hdr.done THEN "new" ELSE "old", val |-> want'[x]]
    BY <1>0 DEF NoWriteLost
  <2>2. CASE x = s
    BY <1>2, <1>4, <2>2 DEF Free, KeyNow
  <2>3. CASE x # s
    <3>1. want'[x] = want[x] /\ disk'[x] = disk[x]
      BY <1>3, <1>4, <2>1, <2>3
    <3> QED
      BY <2>1, <3>1 DEF OnlineInv, NoWriteLost
  <2> QED
    BY <2>2, <2>3
<1> QED
  BY <1>5, <1>7, <1>8, <1>9, <1>10 DEF OnlineInv

(* A deactivation removes `name', and every helper device that it touches. *)
LEMMA Deactivated ==
    ASSUME IsStack(dm), Downward(dm), LUKS2_deactivate
    PROVE  /\ IsStack(dm') /\ DOMAIN dm' \subseteq DOMAIN dm \ {"name"}
           /\ \A m \in DOMAIN dm' : dm'[m] = dm[m]
<1> DEFINE stopped == IF Suspended(dm, "overlay") /\ "overlay" \in Deps
                      THEN Errored(dm, "overlay") ELSE dm
           top == Removed(stopped, "name")
           one == IF "overlay" \in Deps THEN RemovedIfFree(top, "overlay") ELSE top
           two == IF "hotzone" \in Deps THEN RemovedIfFree(one, "hotzone") ELSE one
<1>1. dm' = two
  BY DEF LUKS2_deactivate
<1>2. /\ IsStack(stopped) /\ DOMAIN stopped = DOMAIN dm
      /\ \A m \in DOMAIN dm \ {"overlay"} : stopped[m] = dm[m]
      /\ "overlay" \in DOMAIN dm => stopped["overlay"] \in {dm["overlay"], Device(ErrorTable)}
      /\ "overlay" \notin Deps => stopped = dm
  BY ErroredIs DEF Suspended, Exists
<1>3. Downward(stopped)
  <2>1. "overlay" \in DOMAIN dm => Maps(stopped, "overlay") \subseteq {"data", "hotzone"}
    BY <1>2, DeviceIs, OtherTables DEF Downward, Maps
  <2> QED
    BY <1>2, <2>1 DEF Downward, Maps
<1> HIDE DEF stopped
<1>4. /\ IsStack(top) /\ DOMAIN top = DOMAIN dm \ {"name"}
      /\ \A m \in DOMAIN top : top[m] = stopped[m]
  BY <1>2, RemovedIs
<1>5. \A m \in DOMAIN top : "overlay" \notin Maps(top, m)
  BY <1>2, <1>3, <1>4 DEF Maps, Downward, IsStack
<1> HIDE DEF top
<1>6. /\ IsStack(one) /\ DOMAIN one \subseteq DOMAIN top
      /\ \A m \in DOMAIN one : one[m] = top[m]
      /\ "overlay" \in Deps => "overlay" \notin DOMAIN one
  <2>1. /\ IsStack(RemovedIfFree(top, "overlay"))
        /\ DOMAIN RemovedIfFree(top, "overlay") \in {DOMAIN top, DOMAIN top \ {"overlay"}}
        /\ (\A m \in DOMAIN top : "overlay" \notin Maps(top, m)) =>
              "overlay" \notin DOMAIN RemovedIfFree(top, "overlay")
        /\ \A m \in DOMAIN RemovedIfFree(top, "overlay") : RemovedIfFree(top, "overlay")[m] = top[m]
    BY <1>4, RemovedIfFreeIs
  <2>2. CASE "overlay" \in Deps
    BY <1>5, <2>1, <2>2
  <2>3. CASE "overlay" \notin Deps
    BY <1>4, <2>3
  <2> QED
    BY <2>2, <2>3
<1>7. \A m \in DOMAIN one : one[m] = dm[m]
  BY <1>2, <1>4, <1>6
<1> HIDE DEF one
<1>8. /\ IsStack(two) /\ DOMAIN two \subseteq DOMAIN one
      /\ \A m \in DOMAIN two : two[m] = one[m]
  <2>1. /\ IsStack(RemovedIfFree(one, "hotzone"))
        /\ DOMAIN RemovedIfFree(one, "hotzone") \in {DOMAIN one, DOMAIN one \ {"hotzone"}}
        /\ \A m \in DOMAIN RemovedIfFree(one, "hotzone") : RemovedIfFree(one, "hotzone")[m] = one[m]
    BY <1>6, RemovedIfFreeIs
  <2> QED
    BY <1>6, <2>1
<1> QED
  BY <1>1, <1>4, <1>6, <1>7, <1>8

(* `name' is deactivated: no sector is reached any more.                   *)
LEMMA DeactivateStep ==
    ASSUME OnlineInv, LUKS2_deactivate
    PROVE  OnlineInv'
<1>0. /\ UNCHANGED <<disk, want, hdr, area, pc, hot, buf, used, result, faults, deaths>>
      /\ ~used /\ IsStack(dm) /\ Downward(dm)
  BY DEF LUKS2_deactivate, OnlineInv, TypePart
<1>1. /\ IsStack(dm') /\ DOMAIN dm' \subseteq DOMAIN dm \ {"name"}
      /\ \A m \in DOMAIN dm' : dm'[m] = dm[m]
  BY <1>0, Deactivated
<1>2. OnlineTypeOK' /\ TypePart'
  BY <1>0, <1>1 DEF OnlineInv, OnlineTypeOK, TypePart, Exists, Downward, Maps
<1>3. NamePart' /\ StackPart'
  BY <1>1 DEF NamePart, StackPart, Undisturbed, Exists
<1>4. OverlayPart' /\ HotzonePart'
  BY <1>0, <1>1 DEF OnlineInv, OverlayPart, HotzonePart, HotzonePasses, Exists
<1>5. HdrPart' /\ NoWriteLost'
  BY <1>0 DEF OnlineInv, HdrPart, NoWriteLost
<1> QED
  BY <1>2, <1>3, <1>4, <1>5 DEF OnlineInv

(* What a recovery writes is what was saved, under the new key.            *)
LEMMA Recovered ==
    ASSUME OnlineInv, pc = "idle", disk' = RecoveredDisk, hdr' = RecoveredHdr,
           UNCHANGED <<want, area, pc, hot, buf, faults, deaths>>
    PROVE  /\ disk' \in [Sector -> [key : {"old", "new"}, val : Content]]
           /\ hdr' \in [done : SUBSET Sector, hot : SUBSET Sector, flag : BOOLEAN]
           /\ hdr'.done = hdr.done \cup hdr.hot /\ hdr'.hot = {}
           /\ NoWriteLost' /\ HdrPart'
<1>0. /\ disk \in [Sector -> [key : {"old", "new"}, val : Content]]
      /\ hdr \in [done : SUBSET Sector, hot : SUBSET Sector, flag : BOOLEAN]
      /\ want \in [Sector -> Content] /\ \A s \in hdr.hot : area[s] \in Content
  BY DEF OnlineInv, OnlineTypeOK, TypePart
<1>1. disk' \in [Sector -> [key : {"old", "new"}, val : Content]]
  BY <1>0 DEF RecoveredDisk
<1>2. /\ hdr' \in [done : SUBSET Sector, hot : SUBSET Sector, flag : BOOLEAN]
      /\ hdr'.done = hdr.done \cup hdr.hot /\ hdr'.hot = {}
  BY <1>0 DEF RecoveredHdr
<1>3. NoWriteLost'
  <2>1. SUFFICES ASSUME NEW s \in Sector
                 PROVE  disk'[s] = [key |-> IF s \in hdr'.done THEN "new" ELSE "old", val |-> want'[s]]
    BY <1>2 DEF NoWriteLost
  <2>2. CASE s \in hdr.hot
    BY <1>2, <2>1, <2>2 DEF RecoveredDisk, OnlineInv, NoWriteLost
  <2>3. CASE s \notin hdr.hot
    BY <1>2, <2>1, <2>3 DEF RecoveredDisk, OnlineInv, NoWriteLost
  <2> QED
    BY <2>2, <2>3
<1>4. HdrPart'
  BY DEF HdrPart, Refresh, Busy
<1> QED
  BY <1>1, <1>2, <1>3, <1>4

(* A recovery while `name' is active: it finds hot data, so that `name' is *)
(* over the overlay, which does not let the hotzone through.               *)
LEMMA RecoveryStep ==
    ASSUME OnlineInv, reencrypt_recovery_by_passphrase
    PROVE  OnlineInv'
<1>0. /\ UNCHANGED <<dm, want, area, pc, hot, buf, used, faults, deaths>>
      /\ pc = "idle" /\ hdr.hot # {} /\ disk' = RecoveredDisk /\ hdr' = RecoveredHdr
  BY DEF reencrypt_recovery_by_passphrase, At
<1>1. /\ disk' \in [Sector -> [key : {"old", "new"}, val : Content]]
      /\ hdr' \in [done : SUBSET Sector, hot : SUBSET Sector, flag : BOOLEAN]
      /\ hdr'.done = hdr.done \cup hdr.hot /\ hdr'.hot = {}
      /\ NoWriteLost' /\ HdrPart'
  BY <1>0, Recovered
<1>2. OnlineTypeOK' /\ TypePart'
  BY <1>0, <1>1 DEF OnlineInv, OnlineTypeOK, TypePart, Exists, IsStack, Downward, Maps
<1>3. OverlayFine => OverlayFine'
  <2>1. SUFFICES ASSUME OverlayFine, Exists(dm, "overlay"), ~dm["overlay"].susp, NEW s \in Sector
                 PROVE  TargetFine(dm["overlay"].live.what[s], s)'
    BY <1>0 DEF OverlayFine, Exists
  <2>2. TargetFine(dm["overlay"].live.what[s], s)
    BY <2>1 DEF OverlayFine
  <2>3. Free(s)' /\ (Free(s) => KeyNow(s)' = KeyNow(s))
    BY <1>0, <1>1 DEF KeyNow, Free, Busy
  <2>4. HotzonePasses' = HotzonePasses
    BY <1>0 DEF HotzonePasses, Exists
  <2> QED
    BY <1>0, <1>1, <2>2, <2>3, <2>4 DEF TargetFine
<1>4. NamePart'
  BY <1>0, <1>3 DEF OnlineInv, NamePart, Exists, Stacked, Early, Refresh, Busy
<1>5. OverlayPart' /\ HotzonePart'
  BY <1>0 DEF OnlineInv, OverlayPart, HotzonePart, HotzonePasses, Exists, Refresh, Busy
<1>6. StackPart'
  <2>1. SUFFICES ASSUME Undisturbed, Exists(dm, "name") PROVE FALSE
    BY <1>0 DEF StackPart, Undisturbed, Exists
  <2>2. dm["name"] = Device(SegmentTable(hdr.done))
    BY <1>0, <2>1 DEF OnlineInv, StackPart
  <2>3. dm["name"].live # Linear("overlay")
    BY <2>2, DeviceIs, SegmentTableIs, LinearIs
  <2> QED
    BY <1>0, <2>1, <2>3 DEF OnlineInv, NamePart
<1> QED
  BY <1>1, <1>2, <1>4, <1>5, <1>6 DEF OnlineInv

(* An activation recovers first and gives `name' the table of the          *)
(* recovered header.                                                       *)
LEMMA ActivateStep ==
    ASSUME OnlineInv, _open_and_activate_reencrypt_device
    PROVE  OnlineInv'
<1>0. /\ UNCHANGED <<want, area, pc, hot, buf, used, faults, deaths>>
      /\ pc = "idle" /\ ~Exists(dm, "name") /\ disk' = RecoveredDisk /\ hdr' = RecoveredHdr
      /\ IsStack(dm) /\ Downward(dm) /\ ~used
  BY DEF _open_and_activate_reencrypt_device, At, OnlineInv, OnlineTypeOK, TypePart
<1>1. /\ disk' \in [Sector -> [key : {"old", "new"}, val : Content]]
      /\ hdr' \in [done : SUBSET Sector, hot : SUBSET Sector, flag : BOOLEAN]
      /\ hdr'.done = hdr.done \cup hdr.hot /\ hdr'.hot = {}
      /\ NoWriteLost' /\ HdrPart'
  BY <1>0, Recovered
<1>2. CASE DOMAIN dm = {}
  <2> DEFINE t == SegmentTable(hdr'.done)
  <2>0. t \in DevTables /\ dm' = Created(dm, "name", t)
    BY <1>2, SegmentTableIs DEF _open_and_activate_reencrypt_device
  <2>1. IsStack(dm') /\ DOMAIN dm' = {"name"} /\ dm'["name"] = Device(t)
    <3> HIDE DEF t
    <3>1. /\ IsStack(Created(dm, "name", t)) /\ DOMAIN Created(dm, "name", t) = DOMAIN dm \cup {"name"}
          /\ Created(dm, "name", t)["name"] = Device(t)
      BY <1>0, <2>0, CreatedIs
    <3> QED
      BY <1>2, <2>0, <3>1
  <2>2. OnlineTypeOK' /\ TypePart'
    BY <1>0, <1>1, <2>1 DEF OnlineInv, OnlineTypeOK, TypePart, Downward
  <2>3. NamePart'
    BY <1>0, <1>1, <2>1, DeviceIs DEF NamePart, Stacked, Refresh, Busy
  <2>4. OverlayPart' /\ HotzonePart'
    BY <1>0, <2>1 DEF OverlayPart, HotzonePart, HotzonePasses, Exists, Busy
  <2>5. StackPart'
    BY <1>0, <2>1 DEF StackPart, Stacked, Refresh, Busy, Helpers, Exists
  <2> QED
    BY <1>1, <2>2, <2>3, <2>4, <2>5 DEF OnlineInv
<1>3. CASE DOMAIN dm # {}
  <2>0. dm' = dm
    BY <1>3 DEF _open_and_activate_reencrypt_device
  <2>1. OnlineTypeOK' /\ TypePart'
    BY <1>0, <1>1, <2>0 DEF OnlineInv, OnlineTypeOK, TypePart, IsStack, Downward, Maps
  <2>2. NamePart' /\ StackPart'
    BY <1>0, <2>0 DEF NamePart, StackPart, Undisturbed, Exists
  <2>3. OverlayPart' /\ HotzonePart'
    BY <1>0, <2>0 DEF OnlineInv, OverlayPart, HotzonePart, HotzonePasses, Exists, Refresh, Busy
  <2> QED
    BY <1>1, <2>1, <2>2, <2>3 DEF OnlineInv
<1> QED
  BY <1>2, <1>3

-----------------------------------------------------------------------------
(* The reencryption is initialised and `name' is active with its old key.  *)
LEMMA InitHolds ==
    ASSUME Init
    PROVE  OnlineInv
<1> DEFINE t == SegmentTable({})
<1>0. t \in DevTables /\ NoTable \in DevTables
  BY SegmentTableIs, OtherTables
<1>1. hdr.done = {} /\ hdr.hot = {} /\ hdr \in [done : SUBSET Sector, hot : SUBSET Sector, flag : BOOLEAN]
  BY DEF Init
<1>2. DOMAIN dm = {"name"} /\ dm["name"] = Device(t) /\ IsStack(dm)
  <2> HIDE DEF t
  <2>1. Device(t) \in Devices
    BY <1>0 DEF Device, Devices
  <2>2. dm = [d \in {"name"} |-> Device(t)]
    BY DEF Init, t
  <2> QED
    BY <2>1, <2>2 DEF IsStack
<1>3. /\ disk = [s \in Sector |-> [key |-> "old", val |-> 0]] /\ want = [s \in Sector |-> 0]
      /\ pc = "idle" /\ hot = {} /\ faults = 0 /\ deaths = 0 /\ used \in BOOLEAN
  BY DEF Init
<1>4. OnlineTypeOK /\ TypePart
  BY <1>1, <1>2, <1>3 DEF OnlineTypeOK, TypePart, Steps, Downward, Exists, Content
<1>5. NamePart
  BY <1>1, <1>2, <1>3, DeviceIs DEF NamePart, Stacked, Refresh, Busy
<1>6. OverlayPart /\ HotzonePart /\ HdrPart
  BY <1>1, <1>2, <1>3 DEF OverlayPart, HotzonePart, HdrPart, Exists, Refresh, Busy
<1>7. NoWriteLost
  BY <1>1, <1>3 DEF NoWriteLost
<1>8. StackPart
  BY <1>1, <1>2, <1>3 DEF StackPart, Stacked, Refresh, Busy, Helpers, Exists
<1> QED
  BY <1>4, <1>5, <1>6, <1>7, <1>8 DEF OnlineInv

(* Every step of the process, of the applications and of other processes   *)
(* keeps the invariant.                                                    *)
LEMMA StepHolds ==
    ASSUME OnlineInv, [Next]_vars
    PROVE  OnlineInv'
<1>1. CASE Process
  BY <1>1, LoadContextStep, CreateHotzoneStep, CreateOverlayStep, LoadNameStep, SwitchNameStep,
     LoadOverlayStep, SuspendOverlayStep, SuspendHotzoneStep, ResumeOverlayStep, ReadHotzoneStep,
     CommitHotStep, WriteHotzoneStep, WriteFailsStep, CommitPostStep, ResumeHotzoneStep,
     LoopEndsStep, ReloadNameStep, ResumeNameStep, RemoveHelpersStep DEF Process
<1>2. CASE Die \/ Open \/ Close \/ AppWrite \/ LUKS2_deactivate
  BY <1>2, DieStep, OpenCloseStep, AppWriteStep, DeactivateStep
<1>3. CASE reencrypt_recovery_by_passphrase \/ _open_and_activate_reencrypt_device
  BY <1>3, RecoveryStep, ActivateStep
<1>4. CASE UNCHANGED vars
  <2>0. UNCHANGED <<dm, disk, want, hdr, area, pc, hot, buf, used, result, faults, deaths>>
    BY <1>4 DEF vars
  <2>1. OnlineTypeOK' /\ TypePart'
    BY <2>0 DEF OnlineInv, OnlineTypeOK, TypePart, Exists, IsStack, Downward, Maps
  <2>2. OverlayFine => OverlayFine'
    <3>1. HotzonePasses' => HotzonePasses
      BY <2>0 DEF HotzonePasses, Exists
    <3> QED
      BY <2>0, <3>1, OverlayStays
  <2>3. NamePart'
    BY <2>0, <2>2 DEF OnlineInv, NamePart, Exists
  <2>4. OverlayPart' /\ HotzonePart' /\ StackPart'
    BY <2>0 DEF OnlineInv, OverlayPart, HotzonePart, HotzonePasses, StackPart, Undisturbed, Exists
  <2>5. HdrPart' /\ NoWriteLost'
    BY <2>0 DEF OnlineInv, HdrPart, NoWriteLost
  <2> QED
    BY <2>1, <2>3, <2>4, <2>5 DEF OnlineInv
<1> QED
  BY <1>1, <1>2, <1>3, <1>4 DEF Next

(* The invariant holds at every moment.                                    *)
LEMMA OnlineInvariant == OnlineSpec => []OnlineInv
<1>1. Init => OnlineInv
  BY InitHolds
<1>2. OnlineInv /\ [Next]_vars => OnlineInv'
  BY StepHolds
<1> QED
  BY <1>1, <1>2, PTL DEF OnlineSpec

(* Whenever I/O of an application gets to the data device through the      *)
(* stacked devices, it finds there what applications last wrote, under the *)
(* key of the target that it came through: at every moment of a refresh of *)
(* the overlay, a hotzone, a teardown, a fault, a death and a recovery     *)
(* (reencrypt_refresh_overlay_devices, reencrypt_step,                     *)
(* reencrypt_swap_backing_device, reencrypt_recovery_by_passphrase), for   *)
(* any size of the device and of the hotzones and any number of faults.    *)
THEOREM OnlineKeepsView == OnlineSpec => []AppsSeeTheirData
<1>1. OnlineInv => AppsSeeTheirData
  BY AppsSee
<1> QED
  BY <1>1, OnlineInvariant, PTL

(* What applications last wrote to a sector is on the device under the key *)
(* that the header gives to it, or is in the hot segment and can be        *)
(* recovered from the area of the reencrypt keyslot (reencrypt_step,       *)
(* reencrypt_hotzone_protect_final), whatever fails or dies.               *)
THEOREM OnlineLosesNoWrite == OnlineSpec => []NoWriteLost
<1>1. OnlineInv => NoWriteLost
  BY DEF OnlineInv
<1> QED
  BY <1>1, OnlineInvariant, PTL

(* A process that has ended well has no successor yet.                     *)
LEMMA DoneIsIdle == OnlineSpec => [](result = "done" => pc = "idle")
<1> DEFINE I == result = "done" => pc = "idle"
<1>1. Init => I
  BY DEF Init
<1>2. I /\ [Next]_vars => I'
  <2> SUFFICES ASSUME I, [Next]_vars PROVE I'
    OBVIOUS
  <2>1. CASE Process
    BY <2>1 DEF Process, LoadContext, CreateHotzone, CreateOverlay, LoadName, SwitchName,
         LoadOverlay, SuspendOverlay, SuspendHotzone, SuspendHelper, ResumeOverlay, ReadHotzone,
         CommitHot, WriteHotzone, WriteFails, CommitPost, ResumeHotzone, LoopEnds, ReloadName,
         ResumeName, RemoveHelpers, At, End
  <2>2. CASE ~Process
    BY <2>2 DEF Next, Die, Open, Close, AppWrite, LUKS2_deactivate, At, End, vars,
         reencrypt_recovery_by_passphrase, _open_and_activate_reencrypt_device
  <2> QED
    BY <2>1, <2>2
<1> QED
  BY <1>1, <1>2, PTL DEF OnlineSpec

(* A process that ends well, and was never disturbed, leaves `name' with   *)
(* the table of the header's segments and no helper device                 *)
(* (reencrypt_teardown_ok, dm_remove_device).                              *)
THEOREM OnlineStackIsSound == OnlineSpec => []StackSound
<1>1. OnlineInv /\ (result = "done" => pc = "idle") => StackSound
  BY DEF OnlineInv, StackSound, StackTakenDown, StackPart, Undisturbed
<1> QED
  BY <1>1, OnlineInvariant, DoneIsIdle, PTL
=============================================================================
