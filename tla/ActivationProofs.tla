-------------------------- MODULE ActivationProofs --------------------------
(***************************************************************************)
(* A volume runs with its volume key only, a suspended or closed one has   *)
(* left no key behind, and stacks of devices are made, reloaded and        *)
(* removed as a whole, for any number of processes, calls, failures and    *)
(* deaths.  The first is proved from the inductive invariant KeyInv, which *)
(* holds even where users reload a volume that others work on; the others  *)
(* from ActivationInv, which does not.                                     *)
(*                                                                         *)
(* The argument for it: what a process knows about the devices is fixed by *)
(* its place (ReloadOK, OwnerOK), and stays true because every other       *)
(* process is at a place where it changes no table (Free): the user keeps  *)
(* others from a volume that is reloaded, and a stack that is half made    *)
(* has no top for others to call on.  What is loaded, suspended or half    *)
(* made can always be charged to a process at a place that will undo it    *)
(* (LoadPart, SuspPart, WholePart, VerPart), so nothing is left when all   *)
(* are idle.  That part needs that nobody is killed and that no call in    *)
(* NotUndone fails; the tables themselves are right without it (DmOK).     *)
(***************************************************************************)
EXTENDS Activation, TLAPS

-----------------------------------------------------------------------------
(* The inductive invariant                                                 *)

(* What the code does not undo when it fails, and what it must not meet    *)
(* for the volume to be left whole.                                        *)
NotUndone ==
    {<<"crypt", "resume">>, <<"integrity", "resume">>, <<"integrity", "remove">>,
     <<"tcrypt", "create">>, <<"tcrypt", "remove">>}

(* The devices of a volume, the ones there may be, and what each is over.  *)
Names(k) ==
    IF k = "crypt" THEN {"n"} ELSE IF k = "integrity" THEN {"n_dif", "n"} ELSE {"n_2", "n_1", "n"}
Prefixes(k) ==
    {{}, Names(k)} \cup (IF k = "crypt" THEN {} ELSE IF k = "integrity" THEN {{"n_dif"}}
                         ELSE {{"n_2"}, {"n_2", "n_1"}})
Under(k, x) ==
    IF x = "n" THEN (IF k = "crypt" THEN {"data"} ELSE IF k = "integrity" THEN {"n_dif"} ELSE {"n_1"})
    ELSE IF x = "n_1" THEN {"n_2"} ELSE {"data"}

Name == {"n", "n_dif", "n_1", "n_2"}
CryptTables ==
    [over : SUBSET (Name \cup {"data"}), what : {"crypt"}, key : {"vk", "twin", "wiped"}, desc : BOOLEAN, ver : {"old", "new"}]
IntegrityTables == [over : {{"data"}}, what : {"integrity"}, ver : {"old", "new"}]
Tables == CryptTables \cup IntegrityTables \cup {NoTable, ErrorTable}
Devices == [live : Tables, load : Tables, susp : BOOLEAN]

(* A crypt table has the volume key, through the keyring if keys go there; *)
(* or it has been wiped.                                                   *)
LiveOK(t, x, k, v) ==
    \/ t = ErrorTable
    \/ x = "n_dif" /\ t \in IntegrityTables
    \/ /\ x # "n_dif" /\ t \in CryptTables /\ t.over = Under(k, x)
       /\ t.key \in {"vk", "twin"} => t.desc = v
       /\ t.key = "wiped" => ~t.desc /\ x = "n"
LoadOK(t, x, k, v) ==
    \/ t = NoTable
    \/ x = "n_dif" /\ t \in IntegrityTables
    \/ x = "n" /\ t \in CryptTables /\ t.over = Under(k, x) /\ t.key \in {"vk", "twin"} /\ t.desc = v

(* A device with these tables that runs has a key.                         *)
DevOK(e, x, k, v) ==
    /\ e \in Devices
    /\ LiveOK(e.live, x, k, v) /\ LoadOK(e.load, x, k, v)
    /\ (e.live.what = "crypt" /\ e.live.key = "wiped") => e.susp
DmOK(d, k, v) ==
    /\ DOMAIN d \in Prefixes(k) /\ d = [x \in DOMAIN d |-> d[x]]
    /\ \A x \in DOMAIN d : DevOK(d[x], x, k, v)

(* Where a call may be, by what was called and on which kind of volume.    *)
Entering == {"open", "check", "create 1", "create 2", "create 3", "rollback", "failed", "done"}
Staging == {"load n", "suspend n", "suspend i", "resume i", "resume n", "clear", "fatal"}
Working == {"load", "swap", "load i"} \cup Staging
PlacesOf(op) ==
    CASE op = "activate" -> Entering
      [] op = "refresh" -> Entering \cup {"query"} \cup Working
      [] op = "resize" -> {"query", "load", "swap", "failed", "done"}
      [] op = "suspend" -> {"suspend", "wipe", "unsuspend", "failed"}
      [] op = "resume" -> {"set key", "resume", "failed", "done"}
      [] op = "close" -> {"remove n", "remove 2", "remove 3", "removed"}
      [] OTHER -> {}
KindsAt(a) ==
    CASE a \in {"load", "swap"} -> {"crypt"}
      [] a \in {"rollback", "load i"} \cup Staging -> {"integrity"}
      [] a \in {"create 3", "remove 3"} -> {"tcrypt"}
      [] a \in {"create 2", "remove 2"} -> {"integrity", "tcrypt"}
      [] OTHER -> {"crypt", "integrity", "tcrypt"}

IsJob(j) == j = Job(j.at, j.op, j.key) /\ j.key \in {"vk", "twin", "described", "bare"}
JobOK(j, k, v) ==
    /\ IsJob(j)
    /\ j.at \in PlacesOf(j.op) /\ k \in KindsAt(j.at)
    /\ j.op \in {"activate", "refresh", "resize", "resume"} => j.key \in {"vk", "twin"}
    /\ j.op = "refresh" => k # "tcrypt"
    /\ j.op = "resize" => k = "crypt"
    /\ j.op \in {"suspend", "resume"} => k # "tcrypt"
    /\ (j.op = "suspend" /\ v) => j.key = "described"

(* What a reloading process has found or made.                             *)
ReloadOK(a, d, k) ==
    /\ a \in {"query"} \cup Working => DOMAIN d = Names(k)
    /\ a \in Working => d["n"].live.what = "crypt" /\ d["n"].live.key \in {"vk", "twin"}
    /\ a \in {"swap", "suspend n", "suspend i", "resume i", "resume n"} =>
         d["n"].load # NoTable /\ d["n"].load.ver = "new"
    /\ a \in {"load n", "suspend n", "suspend i", "resume i"} =>
         d["n_dif"].load # NoTable /\ d["n_dif"].load.ver = "new"
    /\ a = "resume n" => d["n_dif"].live # ErrorTable /\ d["n_dif"].live.ver = "new"

(* A process that makes or removes a stack has exactly some of it.         *)
Owning == {"create 2", "create 3", "rollback", "remove 2", "remove 3"}
Partial(a, k) ==
    IF k = "integrity" THEN {"n_dif"}
    ELSE IF a \in {"create 2", "remove 3"} THEN {"n_2"} ELSE {"n_2", "n_1"}
OwnerOK(a, d, k) ==
    a \in Owning => /\ DOMAIN d = Partial(a, k)
                    /\ a = "create 2" /\ k = "integrity" => d["n_dif"].live = IntegrityTable("old")

Reloads(j) == j # Idle /\ j.op \in {"refresh", "resize"}
JobPart(j, d, k, v) ==
    \A p \in Proc : j[p] # Idle => JobOK(j[p], k, v) /\ ReloadOK(j[p].at, d, k) /\ OwnerOK(j[p].at, d, k)
AlonePart(j) ==
    \A p, q \in Proc : p # q =>
        /\ Reloads(j[p]) => j[q] = Idle \/ j[q].op = "activate"
        /\ ~(j[p].at \in Owning /\ j[q].at \in Owning)

RingPart(j, v, r, ir, l) ==
    /\ r \in [Proc -> {"none", "vk", "twin"}] /\ ir \in [Proc -> BOOLEAN] /\ DOMAIN l = Proc
    /\ \A p \in Proc : r[p] # "none" <=> ir[p]
    /\ \A p \in Proc : ir[p] => v /\ (j[p] = Idle => l[p] \in {"ok", "closed", "refused"})

(* Which process has a table loaded, a device suspended, or half a stack.  *)
LoadedAt(x) ==
    IF x = "n" THEN {"swap", "suspend n", "suspend i", "resume i", "resume n", "clear", "fatal"}
    ELSE {"load n", "suspend n", "suspend i", "resume i", "clear"}
SuspendedAt(x) ==
    IF x = "n" THEN {"wipe", "unsuspend", "resume", "suspend i", "resume i", "resume n", "clear", "fatal"}
    ELSE {"resume i", "clear"}
Somebody(j, A) == \E p \in Proc : j[p].at \in A

LoadPart(d, j) == \A x \in DOMAIN d : d[x].load # NoTable => Somebody(j, LoadedAt(x))
LockPart(d, lo) ==
    /\ lo => "n" \in DOMAIN d
    /\ "n" \in DOMAIN d =>
         (lo <=> d["n"].live.what = "crypt" /\ d["n"].live.key = "wiped")
    /\ lo => d["n"].load = NoTable
SuspPart(d, j, lo) == \A x \in DOMAIN d : d[x].susp => (x = "n" /\ lo) \/ Somebody(j, SuspendedAt(x))
WholePart(d, j, k) == DOMAIN d \in {{}, Names(k)} \/ Somebody(j, Owning)
VerPart(d, j, k) ==
    (k = "integrity" /\ DOMAIN d = Names(k)) =>
        \/ d["n"].live = ErrorTable /\ d["n_dif"].live = ErrorTable
        \/ /\ d["n"].live # ErrorTable /\ d["n_dif"].live # ErrorTable
           /\ d["n"].live.ver = d["n_dif"].live.ver \/ Somebody(j, {"resume n", "fatal"})

(* No process was killed, and no call has failed that is not undone.       *)
Calm == deaths = 0 /\ <<"crypt", "resume">> \notin FaultsAt
Calmer == deaths = 0 /\ FaultsAt \cap NotUndone = {}

ActivationInv ==
    /\ kind \in {"crypt", "integrity", "tcrypt"} /\ via \in BOOLEAN /\ locked \in BOOLEAN
    /\ deaths \in Nat
    /\ kind = "tcrypt" => ~via
    /\ used => "n" \in DOMAIN dm
    /\ job = [p \in Proc |-> job[p]]
    /\ DmOK(dm, kind, via)
    /\ JobPart(job, dm, kind, via) /\ AlonePart(job)
    /\ RingPart(job, via, ring, inring, last)
    /\ Calm => LoadPart(dm, job) /\ LockPart(dm, locked)
    /\ Calmer => SuspPart(dm, job, locked) /\ WholePart(dm, job, kind) /\ VerPart(dm, job, kind)

-----------------------------------------------------------------------------
(* Volumes                                                                 *)

(* The stack of each kind of volume, and what is below each device.        *)
LEMMA StackIs ==
    /\ kind = "crypt" => Stack = <<"n">> /\ Over("n") = {"data"}
    /\ kind = "integrity" => Stack = <<"n_dif", "n">> /\ Over("n_dif") = {"data"} /\ Over("n") = {"n_dif"}
    /\ kind = "tcrypt" => /\ Stack = <<"n_2", "n_1", "n">>
                          /\ Over("n_2") = {"data"} /\ Over("n_1") = {"n_2"} /\ Over("n") = {"n_1"}
<1>1. ASSUME kind = "crypt" PROVE Stack = <<"n">> /\ Over("n") = {"data"}
  <2>1. Stack = <<"n">>
    BY <1>1 DEF Stack
  <2>2. (CHOOSE i \in DOMAIN Stack : Stack[i] = "n") = 1
    BY <2>1
  <2>3. QED
    BY <2>1, <2>2 DEF Over
<1>2. ASSUME kind = "integrity"
      PROVE  Stack = <<"n_dif", "n">> /\ Over("n_dif") = {"data"} /\ Over("n") = {"n_dif"}
  <2>1. Stack = <<"n_dif", "n">>
    BY <1>2 DEF Stack
  <2>2. (CHOOSE i \in DOMAIN Stack : Stack[i] = "n_dif") = 1
    BY <2>1
  <2>3. (CHOOSE i \in DOMAIN Stack : Stack[i] = "n") = 2
    BY <2>1
  <2>4. QED
    BY <2>1, <2>2, <2>3 DEF Over
<1>3. ASSUME kind = "tcrypt"
      PROVE  /\ Stack = <<"n_2", "n_1", "n">>
             /\ Over("n_2") = {"data"} /\ Over("n_1") = {"n_2"} /\ Over("n") = {"n_1"}
  <2>1. Stack = <<"n_2", "n_1", "n">>
    BY <1>3 DEF Stack
  <2>2. (CHOOSE i \in DOMAIN Stack : Stack[i] = "n_2") = 1
    BY <2>1
  <2>3. (CHOOSE i \in DOMAIN Stack : Stack[i] = "n_1") = 2
    BY <2>1
  <2>4. (CHOOSE i \in DOMAIN Stack : Stack[i] = "n") = 3
    BY <2>1
  <2>5. QED
    BY <2>1, <2>2, <2>3, <2>4 DEF Over
<1>4. QED
  BY <1>1, <1>2, <1>3

(* A volume that has "n" has all of its devices, and half a stack has not. *)
LEMMA WholeStack ==
    ASSUME NEW k \in {"crypt", "integrity", "tcrypt"}, NEW d, DOMAIN d \in Prefixes(k)
    PROVE  /\ "n" \in DOMAIN d <=> DOMAIN d = Names(k)
           /\ \A a : a \in Owning /\ k \in KindsAt(a) => "n" \notin Partial(a, k) /\ Partial(a, k) # {}
           /\ DOMAIN d \subseteq Name
  BY DEF Prefixes, Names, Owning, KindsAt, Partial, Name

-----------------------------------------------------------------------------
(* Calls                                                                   *)

Free(a) == a \notin {"query"} \cup Working \cup Owning

(* Which call is at a place.                                               *)
LEMMA CallAt ==
    ASSUME NEW j, NEW k, NEW v, JobOK(j, k, v)
    PROVE  /\ j # Idle /\ j.at # "idle"
           /\ j.at \in {"query"} \cup Working => j.op \in {"refresh", "resize"}
           /\ j.at \in {"open", "check", "create 1", "create 2", "create 3", "rollback"} => j.op \in {"activate", "refresh"}
           /\ j.at \in {"suspend", "wipe", "unsuspend"} => j.op = "suspend"
           /\ j.at \in {"set key", "resume"} => j.op = "resume"
           /\ j.at \in {"remove n", "remove 2", "remove 3", "removed"} => j.op = "close"
<1>1. j.at \in PlacesOf(j.op)
  BY DEF JobOK
<1>2. j.at # "idle"
  BY <1>1 DEF PlacesOf, Entering, Working, Staging
<1>3. j # Idle
  BY <1>2 DEF Idle
<1>4. j.at \in {"query"} \cup Working => j.op \in {"refresh", "resize"}
  BY <1>1 DEF PlacesOf, Entering, Working, Staging
<1>5. j.at \in {"open", "check", "create 1", "create 2", "create 3", "rollback"} => j.op \in {"activate", "refresh"}
  BY <1>1 DEF PlacesOf, Entering, Working, Staging
<1>6. /\ j.at \in {"suspend", "wipe", "unsuspend"} => j.op = "suspend"
      /\ j.at \in {"set key", "resume"} => j.op = "resume"
  BY <1>1 DEF PlacesOf, Entering, Working, Staging
<1>7. j.at \in {"remove n", "remove 2", "remove 3", "removed"} => j.op = "close"
  BY <1>1 DEF PlacesOf, Entering, Working, Staging
<1>8. QED
  BY <1>2, <1>3, <1>4, <1>5, <1>6, <1>7

(* What the invariant says of a process that is somewhere.                 *)
LEMMA Here ==
    ASSUME ActivationInv, NEW p \in Proc, job[p].at # "idle"
    PROVE  /\ job[p] # Idle /\ JobOK(job[p], kind, via)
           /\ ReloadOK(job[p].at, dm, kind) /\ OwnerOK(job[p].at, dm, kind)
<1>1. job[p] # Idle
  BY DEF Idle
<1>2. QED
  BY <1>1 DEF ActivationInv, JobPart

(* The parts of the invariant.                                             *)
LEMMA Parts ==
    ASSUME ActivationInv
    PROVE  /\ kind \in {"crypt", "integrity", "tcrypt"} /\ via \in BOOLEAN /\ locked \in BOOLEAN /\ deaths \in Nat
           /\ DmOK(dm, kind, via) /\ DOMAIN dm \in Prefixes(kind)
           /\ \A x \in DOMAIN dm : DevOK(dm[x], x, kind, via)
           /\ used => "n" \in DOMAIN dm
           /\ Calm => LoadPart(dm, job) /\ LockPart(dm, locked)
           /\ Calmer => Calm /\ SuspPart(dm, job, locked) /\ WholePart(dm, job, kind) /\ VerPart(dm, job, kind)
<1>1. Calmer => Calm
  BY DEF Calm, Calmer, NotUndone
<1>2. QED
  BY <1>1 DEF ActivationInv, DmOK

(* A process that does nothing is in nobody's way.                         *)
LEMMA FreeIdle == Free("idle")
  BY DEF Free, Working, Staging, Owning

(* Nobody else is in the way of a process that reloads: users keep others  *)
(* from the volume meanwhile.                                              *)
LEMMA OthersOfReloader ==
    ASSUME ActivationInv, NEW p \in Proc, job[p].at \in {"query"} \cup Working
    PROVE  \A q \in Proc \ {p} : Free(job[q].at)
<1>0. job[p].at # "idle"
  BY DEF Working, Staging
<1>1. /\ Reloads(job[p]) /\ DOMAIN dm = Names(kind) /\ kind \in {"crypt", "integrity", "tcrypt"}
      /\ DOMAIN dm \in Prefixes(kind)
  BY <1>0, Here, CallAt, Parts DEF Reloads, ReloadOK
<1>2. ASSUME NEW q \in Proc \ {p} PROVE Free(job[q].at)
  <2>1. CASE job[q].at = "idle"
    BY <2>1, FreeIdle
  <2>2. CASE job[q].at # "idle"
    <3>1. job[q] # Idle /\ JobOK(job[q], kind, via) /\ OwnerOK(job[q].at, dm, kind)
      BY <2>2, Here
    <3>2. job[q].op = "activate"
      BY <1>1, <3>1 DEF ActivationInv, AlonePart
    <3>3. job[q].at \notin {"query"} \cup Working
      BY <3>1, <3>2, CallAt
    <3>4. job[q].at \notin Owning
      BY <1>1, <3>1, WholeStack DEF OwnerOK, JobOK
    <3>5. QED
      BY <3>3, <3>4 DEF Free
  <2>3. QED
    BY <2>1, <2>2
<1>3. QED
  BY <1>2

(* Nor of one that makes or removes a stack: only one has some of its      *)
(* devices.                                                                *)
LEMMA OthersOfOwner ==
    ASSUME ActivationInv, NEW p \in Proc, job[p].at \in Owning
    PROVE  \A q \in Proc \ {p} : Free(job[q].at)
<1>0. job[p].at # "idle"
  BY DEF Owning
<1>1. /\ DOMAIN dm = Partial(job[p].at, kind) /\ kind \in KindsAt(job[p].at)
      /\ kind \in {"crypt", "integrity", "tcrypt"} /\ DOMAIN dm \in Prefixes(kind)
  BY <1>0, Here, Parts DEF OwnerOK, JobOK
<1>2. DOMAIN dm # Names(kind)
  BY <1>1, WholeStack
<1>3. ASSUME NEW q \in Proc \ {p} PROVE Free(job[q].at)
  <2>1. CASE job[q].at = "idle"
    BY <2>1, FreeIdle
  <2>2. CASE job[q].at # "idle"
    <3>1. ReloadOK(job[q].at, dm, kind)
      BY <2>2, Here
    <3>2. job[q].at \notin {"query"} \cup Working
      BY <1>2, <3>1 DEF ReloadOK
    <3>3. job[q].at \notin Owning
      BY DEF ActivationInv, AlonePart
    <3>4. QED
      BY <3>2, <3>3 DEF Free
  <2>3. QED
    BY <2>1, <2>2
<1>4. QED
  BY <1>3

(* Nor of one that suspends, resumes or closes a volume that is there.     *)
LEMMA OthersOfUser ==
    ASSUME ActivationInv, NEW p \in Proc, job[p].at # "idle", job[p].op \in {"suspend", "resume", "close"},
           "n" \in DOMAIN dm
    PROVE  \A q \in Proc \ {p} : Free(job[q].at)
<1>1. /\ DOMAIN dm = Names(kind) /\ kind \in {"crypt", "integrity", "tcrypt"}
      /\ DOMAIN dm \in Prefixes(kind)
  BY Parts, WholeStack
<1>2. job[p] # Idle
  BY Here
<1>3. ASSUME NEW q \in Proc \ {p} PROVE Free(job[q].at)
  <2>1. CASE job[q].at = "idle"
    BY <2>1, FreeIdle
  <2>2. CASE job[q].at # "idle"
    <3>1. job[q] # Idle /\ JobOK(job[q], kind, via) /\ OwnerOK(job[q].at, dm, kind)
      BY <2>2, Here
    <3>2. ~Reloads(job[q])
      BY <1>2 DEF ActivationInv, AlonePart
    <3>3. job[q].at \notin {"query"} \cup Working
      BY <3>1, <3>2, CallAt DEF Reloads
    <3>4. job[q].at \notin Owning
      BY <1>1, <3>1, WholeStack DEF OwnerOK, JobOK
    <3>5. QED
      BY <3>3, <3>4 DEF Free
  <2>3. QED
    BY <2>1, <2>2
<1>4. QED
  BY <1>3

(* Nor of anybody where there is no device at all.                         *)
LEMMA OthersOfNothing ==
    ASSUME ActivationInv, DOMAIN dm = {}, NEW q \in Proc
    PROVE  Free(job[q].at)
<1>1. /\ kind \in {"crypt", "integrity", "tcrypt"} /\ DOMAIN dm \in Prefixes(kind)
      /\ DOMAIN dm # Names(kind)
  BY Parts DEF Names
<1>2. CASE job[q].at = "idle"
  BY <1>2, FreeIdle
<1>3. CASE job[q].at # "idle"
  <2>1. JobOK(job[q], kind, via) /\ ReloadOK(job[q].at, dm, kind) /\ OwnerOK(job[q].at, dm, kind)
    BY <1>3, Here
  <2>2. job[q].at \notin {"query"} \cup Working
    BY <1>1, <2>1 DEF ReloadOK
  <2>3. job[q].at \notin Owning
    BY <1>1, <2>1, WholeStack DEF OwnerOK, JobOK
  <2>4. QED
    BY <2>2, <2>3 DEF Free
<1>4. QED
  BY <1>2, <1>3

-----------------------------------------------------------------------------
(* Steps of a process                                                      *)

To(p, a) == [job[p] EXCEPT !.at = a]

(* A call with another place.                                              *)
LEMMA ExceptAt ==
    ASSUME NEW x, NEW y, NEW z, NEW a
    PROVE  [[at |-> x, op |-> y, key |-> z] EXCEPT !.at = a] = [at |-> a, op |-> y, key |-> z]
  OBVIOUS

(* A call that goes on elsewhere is the same call.                         *)
LEMMA ToIs ==
    ASSUME ActivationInv, NEW p \in Proc, job[p].at # "idle", NEW a
    PROVE  To(p, a).at = a /\ To(p, a).op = job[p].op /\ To(p, a).key = job[p].key
           /\ IsJob(To(p, a))
<1>1. IsJob(job[p])
  BY Here DEF JobOK
<1>2. /\ job[p] = [at |-> job[p].at, op |-> job[p].op, key |-> job[p].key]
      /\ job[p].key \in {"vk", "twin", "described", "bare"}
  BY <1>1 DEF IsJob, Job
<1>3. [[at |-> job[p].at, op |-> job[p].op, key |-> job[p].key] EXCEPT !.at = a]
        = [at |-> a, op |-> job[p].op, key |-> job[p].key]
  BY ExceptAt
<1>4. To(p, a) = [at |-> a, op |-> job[p].op, key |-> job[p].key]
  BY <1>2, <1>3, Zenon DEF To
<1>5. QED
  BY <1>2, <1>4 DEF IsJob, Job

(* Go as a change of the call of p.                                        *)
LEMMA GoIs ==
    ASSUME ActivationInv, NEW p \in Proc, NEW a, Go(p, a)
    PROVE  job' = [job EXCEPT ![p] = To(p, a)]
  BY DEF Go, To, ActivationInv

(* End as a change of the call of p.                                       *)
LEMMA EndIs ==
    ASSUME ActivationInv, NEW p \in Proc, NEW r, End(p, r)
    PROVE  job' = [job EXCEPT ![p] = Idle] /\ last' = [last EXCEPT ![p] = r]
  BY DEF End

(* A call that goes on where its places are is a call.                     *)
LEMMA ToOK ==
    ASSUME ActivationInv, NEW p \in Proc, job[p].at # "idle", NEW a,
           a \in PlacesOf(job[p].op), kind \in KindsAt(a)
    PROVE  JobOK(To(p, a), kind, via)
  BY Here, ToIs DEF JobOK

(* Who is alone stays alone when a call goes on or returns.                *)
LEMMA StaysAlone ==
    ASSUME ActivationInv, NEW p \in Proc, NEW j, job' = [job EXCEPT ![p] = j], job[p].at # "idle",
           j = Idle \/ (j # Idle /\ j.op = job[p].op),
           j.at \in Owning => job[p].at \in Owning \/ \A q \in Proc \ {p} : Free(job[q].at)
    PROVE  AlonePart(job')
<1>0. job[p] # Idle
  BY Here
<1>1. job'[p] = j /\ \A q \in Proc : q # p => job'[q] = job[q]
  BY DEF ActivationInv
<1>2. \A q, r \in Proc : q # r =>
         /\ Reloads(job[q]) => job[r] = Idle \/ job[r].op = "activate"
         /\ ~(job[q].at \in Owning /\ job[r].at \in Owning)
  BY DEF ActivationInv, AlonePart
<1>3. ASSUME NEW q \in Proc, NEW r \in Proc, q # r, Reloads(job'[q])
      PROVE  job'[r] = Idle \/ job'[r].op = "activate"
  <2>1. Reloads(job[q])
    BY <1>0, <1>1, <1>3 DEF Reloads
  <2>2. QED
    BY <1>0, <1>1, <1>2, <1>3, <2>1
<1>4. ASSUME NEW q \in Proc, NEW r \in Proc, q # r, job'[q].at \in Owning, job'[r].at \in Owning
      PROVE  FALSE
  <2>1. \A s \in Proc \ {p} : Free(job[s].at) => job'[s].at \notin Owning
    BY <1>1 DEF Free
  <2>2. QED
    BY <1>1, <1>2, <1>4, <2>1
<1>5. QED
  BY <1>3, <1>4 DEF AlonePart

(* A call that goes on leaves the keyring alone.                           *)
LEMMA RingKept ==
    ASSUME ActivationInv, NEW p \in Proc, NEW j, job' = [job EXCEPT ![p] = j], j # Idle,
           UNCHANGED <<ring, inring, last>>
    PROVE  RingPart(job', via, ring', inring', last')
<1>1. job'[p] = j /\ \A q \in Proc : q # p => job'[q] = job[q]
  BY DEF ActivationInv
<1>2. QED
  BY <1>1 DEF ActivationInv, RingPart

(* A step that leaves the devices alone.                                   *)
LEMMA Moves ==
    ASSUME ActivationInv, NEW p \in Proc, NEW j, job' = [job EXCEPT ![p] = j],
           dm' = dm, kind' = kind, via' = via, used' = used, locked' = locked, deaths' = deaths,
           j = Idle \/ (JobOK(j, kind, via) /\ ReloadOK(j.at, dm, kind) /\ OwnerOK(j.at, dm, kind)),
           AlonePart(job'), RingPart(job', via, ring', inring', last'),
           Calm => \A x \in DOMAIN dm : (dm[x].load # NoTable /\ job[p].at \in LoadedAt(x)) => j.at \in LoadedAt(x),
           Calmer => \A x \in DOMAIN dm : (dm[x].susp /\ job[p].at \in SuspendedAt(x)) =>
                                            (x = "n" /\ locked) \/ j.at \in SuspendedAt(x),
           Calmer => (job[p].at \in Owning => j.at \in Owning),
           job[p].at \in {"resume n", "fatal"} => j.at \in {"resume n", "fatal"}
    PROVE  ActivationInv'
<1>1. job'[p] = j /\ \A q \in Proc : q # p => job'[q] = job[q]
  BY DEF ActivationInv
<1>2. job' = [q \in Proc |-> job'[q]]
  BY DEF ActivationInv
<1>3. JobPart(job', dm', kind', via')
  BY <1>1 DEF ActivationInv, JobPart
<1>4. (Calm' <=> Calm) /\ (Calmer' <=> Calmer)
  BY DEF Calm, Calmer
<1>5. ASSUME Calm PROVE LoadPart(dm', job') /\ LockPart(dm', locked')
  <2>1. LoadPart(dm, job) /\ LockPart(dm, locked)
    BY <1>5 DEF ActivationInv
  <2>2. LoadPart(dm', job')
    BY <1>1, <1>5, <2>1 DEF LoadPart, Somebody
  <2>3. QED
    BY <2>1, <2>2
<1>6. ASSUME Calmer PROVE SuspPart(dm', job', locked') /\ WholePart(dm', job', kind') /\ VerPart(dm', job', kind')
  <2>1. SuspPart(dm, job, locked) /\ WholePart(dm, job, kind) /\ VerPart(dm, job, kind)
    BY <1>6 DEF ActivationInv
  <2>2. SuspPart(dm', job', locked')
    BY <1>1, <1>6, <2>1 DEF SuspPart, Somebody
  <2>3. WholePart(dm', job', kind')
    BY <1>1, <1>6, <2>1 DEF WholePart, Somebody
  <2>4. VerPart(dm', job', kind')
    BY <1>1, <1>6, <2>1 DEF VerPart, Somebody
  <2>5. QED
    BY <2>2, <2>3, <2>4
<1>7. QED
  BY <1>2, <1>3, <1>4, <1>5, <1>6 DEF ActivationInv

(* A step that changes the devices while nobody else is in the way.        *)
LEMMA Changes ==
    ASSUME ActivationInv, NEW p \in Proc, NEW j, job' = [job EXCEPT ![p] = j], job[p].at # "idle",
           kind' = kind, via' = via, deaths' = deaths, locked' \in BOOLEAN,
           used' => "n" \in DOMAIN dm',
           \A q \in Proc \ {p} : Free(job[q].at),
           DmOK(dm', kind, via),
           j = Idle \/ (JobOK(j, kind, via) /\ j.op = job[p].op /\ ReloadOK(j.at, dm', kind) /\ OwnerOK(j.at, dm', kind)),
           RingPart(job', via, ring', inring', last'),
           Calm => (\A x \in DOMAIN dm' : dm'[x].load # NoTable => j.at \in LoadedAt(x)) /\ LockPart(dm', locked'),
           Calmer => \A x \in DOMAIN dm' : dm'[x].susp =>
                        \/ x = "n" /\ locked'
                        \/ j.at \in SuspendedAt(x)
                        \/ \E q \in Proc \ {p} : job[q].at \in SuspendedAt(x),
           Calmer => DOMAIN dm' \in {{}, Names(kind)} \/ j.at \in Owning,
           Calmer => VerPart(dm', job', kind)
    PROVE  ActivationInv'
<1>1. job'[p] = j /\ \A q \in Proc : q # p => job'[q] = job[q]
  BY DEF ActivationInv
<1>2. job' = [q \in Proc |-> job'[q]]
  BY DEF ActivationInv
<1>3. JobPart(job', dm', kind', via')
  <2>1. ASSUME NEW q \in Proc, q # p, job[q] # Idle
        PROVE  JobOK(job[q], kind, via) /\ ReloadOK(job[q].at, dm', kind) /\ OwnerOK(job[q].at, dm', kind)
    <3>1. JobOK(job[q], kind, via)
      BY <2>1 DEF ActivationInv, JobPart
    <3>2. job[q].at \notin {"query"} \cup Working \cup Owning
      BY <2>1 DEF Free
    <3>3. ReloadOK(job[q].at, dm', kind) /\ OwnerOK(job[q].at, dm', kind)
      BY <3>2 DEF ReloadOK, OwnerOK, Working, Staging
    <3>4. QED
      BY <3>1, <3>3
  <2>2. QED
    BY <1>1, <2>1 DEF JobPart
<1>4. AlonePart(job')
  BY StaysAlone, CallAt
<1>5. (Calm' <=> Calm) /\ (Calmer' <=> Calmer)
  BY DEF Calm, Calmer
<1>6. ASSUME Calm PROVE LoadPart(dm', job') /\ LockPart(dm', locked')
  BY <1>1, <1>6 DEF LoadPart, Somebody
<1>7. ASSUME Calmer PROVE SuspPart(dm', job', locked') /\ WholePart(dm', job', kind')
  <2>1. SuspPart(dm', job', locked')
    BY <1>1, <1>7 DEF SuspPart, Somebody
  <2>2. WholePart(dm', job', kind')
    BY <1>1, <1>7 DEF WholePart, Somebody
  <2>3. QED
    BY <2>1, <2>2
<1>8. QED
  BY <1>2, <1>3, <1>4, <1>5, <1>6, <1>7 DEF ActivationInv

-----------------------------------------------------------------------------
(* Steps that only go on or return                                         *)

(* Places of calls that have nothing loaded, suspended or half made.       *)
Light(a) == /\ a \notin LoadedAt("n") \cup LoadedAt("n_dif") \cup SuspendedAt("n") \cup SuspendedAt("n_dif")
            /\ a \notin Owning \cup {"resume n", "fatal"}

(* These places are light.                                                 *)
LEMMA LightAre ==
    \A a \in {"idle", "open", "check", "create 1", "query", "load", "load i", "failed", "done", "suspend", "set key",
              "remove n", "removed"} : Light(a)
  BY DEF Light, LoadedAt, SuspendedAt, Owning

(* A process at these places is in nobody's way.                           *)
LEMMA FreeAre ==
    \A a \in {"idle", "open", "check", "create 1", "failed", "done", "suspend", "wipe", "unsuspend", "set key", "resume",
              "remove n", "removed"} : Free(a)
  BY DEF Free, Working, Staging, Owning

(* A call that goes on where its places are.                               *)
LEMMA Goes ==
    ASSUME ActivationInv, NEW p \in Proc, job[p].at # "idle", NEW a, Go(p, a),
           dm' = dm, kind' = kind, via' = via, used' = used, locked' = locked, deaths' = deaths,
           a \in PlacesOf(job[p].op), kind \in KindsAt(a),
           ReloadOK(a, dm, kind), OwnerOK(a, dm, kind),
           a \in Owning => job[p].at \in Owning \/ \A q \in Proc \ {p} : Free(job[q].at),
           RingPart(job', via, ring', inring', last'),
           Calm => \A x \in DOMAIN dm : (dm[x].load # NoTable /\ job[p].at \in LoadedAt(x)) => a \in LoadedAt(x),
           Calmer => \A x \in DOMAIN dm : (dm[x].susp /\ job[p].at \in SuspendedAt(x)) =>
                                            (x = "n" /\ locked) \/ a \in SuspendedAt(x),
           Calmer => (job[p].at \in Owning => a \in Owning),
           job[p].at \in {"resume n", "fatal"} => a \in {"resume n", "fatal"}
    PROVE  ActivationInv'
<1>1. job' = [job EXCEPT ![p] = To(p, a)]
  BY GoIs
<1>2. To(p, a).at = a /\ To(p, a).op = job[p].op /\ JobOK(To(p, a), kind, via)
  BY ToIs, ToOK
<1>3. To(p, a) # Idle
  BY <1>2, CallAt
<1>4. AlonePart(job')
  BY <1>1, <1>2, <1>3, StaysAlone
<1>5. ReloadOK(To(p, a).at, dm, kind) /\ OwnerOK(To(p, a).at, dm, kind)
  BY <1>2
<1>6. /\ Calm => \A x \in DOMAIN dm : (dm[x].load # NoTable /\ job[p].at \in LoadedAt(x)) => To(p, a).at \in LoadedAt(x)
      /\ Calmer => \A x \in DOMAIN dm : (dm[x].susp /\ job[p].at \in SuspendedAt(x)) =>
                                            (x = "n" /\ locked) \/ To(p, a).at \in SuspendedAt(x)
      /\ Calmer => (job[p].at \in Owning => To(p, a).at \in Owning)
      /\ job[p].at \in {"resume n", "fatal"} => To(p, a).at \in {"resume n", "fatal"}
  BY <1>2
<1>7. QED
  BY <1>1, <1>2, <1>4, <1>5, <1>6, Moves

(* The keyring over a step that goes on and leaves it alone.               *)
LEMMA RingGoes ==
    ASSUME ActivationInv, NEW p \in Proc, job[p].at # "idle", NEW a, Go(p, a), a # "idle",
           UNCHANGED <<ring, inring, last>>
    PROVE  RingPart(job', via, ring', inring', last')
<1>1. job' = [job EXCEPT ![p] = To(p, a)] /\ To(p, a).at = a
  BY GoIs, ToIs
<1>2. To(p, a) # Idle
  BY <1>1 DEF Idle
<1>3. QED
  BY <1>1, <1>2, RingKept

(* A call that has nothing to undo.                                        *)
LEMMA LightGoes ==
    ASSUME ActivationInv, NEW p \in Proc, job[p].at # "idle", NEW a, Go(p, a),
           dm' = dm, kind' = kind, via' = via, used' = used, locked' = locked, deaths' = deaths,
           a \in PlacesOf(job[p].op), kind \in KindsAt(a), Light(job[p].at), Free(a),
           RingPart(job', via, ring', inring', last')
    PROVE  ActivationInv'
<1>1. a \notin Working /\ a # "query" /\ a \notin Owning
  BY DEF Free
<1>2. ReloadOK(a, dm, kind) /\ OwnerOK(a, dm, kind)
  BY <1>1 DEF ReloadOK, OwnerOK, Working, Staging
<1>3. /\ \A x : job[p].at \notin LoadedAt(x) /\ job[p].at \notin SuspendedAt(x)
      /\ job[p].at \notin Owning /\ job[p].at \notin {"resume n", "fatal"}
  BY DEF Light, LoadedAt, SuspendedAt
<1>4. QED
  BY <1>1, <1>2, <1>3, Goes

(* A call that returns and has nothing to undo.                            *)
LEMMA LightEnds ==
    ASSUME ActivationInv, NEW p \in Proc, job[p].at # "idle", NEW r, End(p, r),
           dm' = dm, kind' = kind, via' = via, used' = used, locked' = locked, deaths' = deaths,
           Light(job[p].at), RingPart(job', via, ring', inring', last')
    PROVE  ActivationInv'
<1>1. job' = [job EXCEPT ![p] = Idle]
  BY EndIs
<1>2. Idle.at \notin Owning
  BY DEF Idle, Owning
<1>3. AlonePart(job')
  BY <1>1, <1>2, StaysAlone
<1>4. /\ \A x : job[p].at \notin LoadedAt(x) /\ job[p].at \notin SuspendedAt(x)
      /\ job[p].at \notin Owning /\ job[p].at \notin {"resume n", "fatal"}
  BY DEF Light, LoadedAt, SuspendedAt
<1>5. QED
  BY <1>1, <1>3, <1>4, Moves

(* What a call leaves in its keyring when it returns.                      *)
LEMMA RingEnds ==
    ASSUME ActivationInv, NEW p \in Proc, job[p].at # "idle", NEW r, End(p, r),
           \/ KeepKeyring /\ (r \in {"ok", "closed", "refused"} \/ ~via)
           \/ DropKeyring(p)
    PROVE  RingPart(job', via, ring', inring', last')
<1>1. /\ ring \in [Proc -> {"none", "vk", "twin"}] /\ inring \in [Proc -> BOOLEAN] /\ DOMAIN last = Proc
      /\ \A q \in Proc : ring[q] # "none" <=> inring[q]
      /\ \A q \in Proc : inring[q] => via /\ (job[q] = Idle => last[q] \in {"ok", "closed", "refused"})
  BY DEF ActivationInv, RingPart
<1>2. \A q \in Proc : q # p => job'[q] = job[q] /\ last'[q] = last[q]
  BY DEF End, ActivationInv
<1>3. CASE KeepKeyring /\ r \in {"ok", "closed", "refused"}
  <2>1. ring' = ring /\ inring' = inring
    BY <1>3 DEF KeepKeyring
  <2>2. last' = [last EXCEPT ![p] = r] /\ r \in {"ok", "closed", "refused"}
    BY <1>3 DEF End
  <2>3. DOMAIN last' = Proc /\ last'[p] = r
    BY <1>1, <2>2
  <2>4. QED
    BY <1>1, <1>2, <2>1, <2>2, <2>3 DEF RingPart
<1>4. CASE KeepKeyring /\ ~via
  BY <1>1, <1>4 DEF RingPart, KeepKeyring, End
<1>5. CASE DropKeyring(p) /\ via
  <2>1. ring' = [ring EXCEPT ![p] = "none"] /\ inring' = [inring EXCEPT ![p] = FALSE]
    BY <1>5 DEF DropKeyring
  <2>2. QED
    BY <1>1, <1>2, <2>1, <1>5 DEF RingPart, End
<1>6. CASE DropKeyring(p) /\ ~via
  BY <1>1, <1>6 DEF RingPart, DropKeyring, End
<1>7. QED
  BY <1>3, <1>4, <1>5, <1>6

-----------------------------------------------------------------------------
(* Calls begin                                                             *)

(* A call begins where it has loaded, suspended and made nothing yet.      *)
LEMMA Begins ==
    ASSUME ActivationInv, NEW p \in Proc, NEW j, Begin(p, j),
           JobOK(j, kind, via), ReloadOK(j.at, dm, kind), OwnerOK(j.at, dm, kind), j.at \notin Owning,
           Reloads(j) => \A q \in Proc : job[q] = Idle,
           j.op = "activate" \/ \A q \in Proc : ~Reloads(job[q])
    PROVE  ActivationInv'
<1>1. /\ job' = [job EXCEPT ![p] = j] /\ job[p] = Idle
      /\ UNCHANGED <<dm, kind, via, used, ring, inring, last, locked, deaths>>
  BY DEF Begin
<1>2. job'[p] = j /\ \A q \in Proc : q # p => job'[q] = job[q]
  BY <1>1 DEF ActivationInv
<1>3. j # Idle
  BY CallAt
<1>4. AlonePart(job')
  BY <1>2 DEF ActivationInv, AlonePart
<1>5. RingPart(job', via, ring', inring', last')
  BY <1>1, <1>3, RingKept
<1>6. Light(job[p].at)
  <2>1. job[p].at = "idle"
    BY <1>1 DEF Idle
  <2>2. QED
    BY <2>1, LightAre
<1>7. /\ \A x : job[p].at \notin LoadedAt(x) /\ job[p].at \notin SuspendedAt(x)
      /\ job[p].at \notin Owning /\ job[p].at \notin {"resume n", "fatal"}
  BY <1>6 DEF Light, LoadedAt, SuspendedAt
<1>8. QED
  BY <1>1, <1>4, <1>5, <1>7, Moves

(* A place in nobody's way asks nothing of the devices.                    *)
LEMMA BeginsAt ==
    ASSUME NEW a, Free(a)
    PROVE  ReloadOK(a, dm, kind) /\ OwnerOK(a, dm, kind) /\ a \notin Owning /\ a \notin Working
  BY DEF Free, ReloadOK, OwnerOK, Working, Staging

(* The parts of a call.                                                    *)
LEMMA JobIs ==
    ASSUME NEW a, NEW op, NEW k \in {"vk", "twin", "described", "bare"}
    PROVE  /\ Job(a, op, k).at = a /\ Job(a, op, k).op = op /\ Job(a, op, k).key = k
           /\ IsJob(Job(a, op, k))
  BY DEF Job, IsJob

(* crypt_activate_by_passphrase and its like begin.                        *)
LEMMA ActivateBegins ==
    ASSUME ActivationInv, ~careless, NEW p \in Proc, crypt_activate(p)
    PROVE  ActivationInv'
<1>1. PICK ref \in BOOLEAN, k \in KeysOf("refresh") :
         /\ ref => kind # "tcrypt" /\ MayReload
         /\ Begin(p, Job("open", IF ref THEN "refresh" ELSE "activate", k))
  BY DEF crypt_activate
<1> DEFINE j == Job("open", IF ref THEN "refresh" ELSE "activate", k)
<1>0. k \in {"vk", "twin"}
  BY <1>1 DEF KeysOf
<1>2. j.at = "open" /\ j.key = k /\ j.op = (IF ref THEN "refresh" ELSE "activate")
      /\ IsJob(j)
  BY <1>0, JobIs
<1>3. kind \in {"crypt", "integrity", "tcrypt"} /\ via \in BOOLEAN
  BY Parts
<1>4. "open" \in PlacesOf(j.op) /\ kind \in KindsAt("open")
  BY <1>2, <1>3 DEF PlacesOf, KindsAt, Entering, Staging
<1>5. JobOK(j, kind, via)
  BY <1>0, <1>1, <1>2, <1>3, <1>4 DEF JobOK
<1>6. ref => \A q \in Proc : job[q] = Idle
  BY <1>1 DEF MayReload
<1>7. (Reloads(j) => ref) /\ (j.op = "activate" \/ ref)
  BY <1>2 DEF Reloads
<1>8. ref => \A q \in Proc : ~Reloads(job[q])
  BY <1>6 DEF Reloads
<1>9. ReloadOK("open", dm, kind) /\ OwnerOK("open", dm, kind) /\ "open" \notin Owning
  BY FreeAre, BeginsAt
<1> HIDE DEF j
<1>10. Begin(p, j)
  BY <1>1 DEF j
<1>11. QED
  BY <1>2, <1>5, <1>6, <1>7, <1>8, <1>9, <1>10, Begins

(* A device that runs has the key, as the volume got it.                   *)
LEMMA RunsWithKey ==
    ASSUME ActivationInv, NEW x \in DOMAIN dm, dm[x].live.what = "crypt", ~dm[x].susp
    PROVE  dm[x].live.key \in {"vk", "twin"} /\ dm[x].live.desc = via
<1>1. DevOK(dm[x], x, kind, via)
  BY Parts
<1>2. dm[x].live \in CryptTables
  BY <1>1 DEF DevOK, LiveOK, ErrorTable, IntegrityTables
<1>3. dm[x].live.key \in {"vk", "twin", "wiped"}
  BY <1>2 DEF CryptTables
<1>4. dm[x].live.key \in {"vk", "twin"}
  BY <1>1, <1>3 DEF DevOK
<1>5. QED
  BY <1>1, <1>4 DEF DevOK, LiveOK, ErrorTable, IntegrityTables

(* crypt_resize begins, with the key of the device.                        *)
LEMMA ResizeBegins ==
    ASSUME ActivationInv, ~careless, NEW p \in Proc, crypt_resize(p)
    PROVE  ActivationInv'
<1> DEFINE j == Job("query", "resize", IF inring[p] THEN ring[p] ELSE dm["n"].live.key)
<1>1. /\ kind = "crypt" /\ "n" \in DOMAIN dm /\ dm["n"].live.what = "crypt" /\ ~dm["n"].susp
      /\ \A q \in Proc : job[q] = Idle
      /\ Begin(p, j)
  BY DEF crypt_resize, MayReload, MayReadKey, IsCrypt, Exists, Suspended
<1>2. dm["n"].live.key \in {"vk", "twin"}
  BY <1>1, RunsWithKey
<1>3. j.at = "query" /\ j.op = "resize" /\ j.key \in {"vk", "twin"}
      /\ IsJob(j)
  <2>1. inring[p] => ring[p] \in {"vk", "twin"}
    BY DEF ActivationInv, RingPart
  <2>2. (IF inring[p] THEN ring[p] ELSE dm["n"].live.key) \in {"vk", "twin"}
    BY <1>2, <2>1
  <2>3. QED
    BY <2>2, JobIs
<1>4. "query" \in PlacesOf("resize") /\ kind \in KindsAt("query") /\ "query" \notin Owning /\ "query" \notin Working
  BY <1>1 DEF PlacesOf, KindsAt, Owning, Staging, Working
<1> HIDE DEF j
<1>5. JobOK(j, kind, via)
  BY <1>1, <1>3, <1>4 DEF JobOK
<1>6. DOMAIN dm = Names(kind)
  BY <1>1, Parts, WholeStack
<1>7. ReloadOK("query", dm, kind) /\ OwnerOK("query", dm, kind)
  BY <1>4, <1>6 DEF ReloadOK, OwnerOK
<1>8. \A q \in Proc : ~Reloads(job[q])
  BY <1>1 DEF Reloads
<1>9. QED
  BY <1>1, <1>3, <1>4, <1>5, <1>7, <1>8, Begins

(* A call on a volume that nobody reloads.                                 *)
LEMMA UseBegins ==
    ASSUME ActivationInv, ~careless, MayUse, NEW p \in Proc, NEW a, NEW op \in {"suspend", "resume", "close"},
           NEW k \in {"vk", "twin", "described", "bare"}, Begin(p, Job(a, op, k)),
           op = "resume" => k \in {"vk", "twin"},
           a \in PlacesOf(op), Free(a), kind \in KindsAt(a),
           op # "close" => kind # "tcrypt",
           (op = "suspend" /\ via) => k = "described"
    PROVE  ActivationInv'
<1> DEFINE j == Job(a, op, k)
<1>1. j.at = a /\ j.op = op /\ j.key = k /\ IsJob(j)
  BY JobIs
<1>2. ReloadOK(a, dm, kind) /\ OwnerOK(a, dm, kind) /\ a \notin Owning /\ a \notin Working
  BY BeginsAt
<1>3. \A q \in Proc : ~Reloads(job[q])
  BY DEF MayUse, Reloading, Reloads
<1> HIDE DEF j
<1>4. JobOK(j, kind, via)
  BY <1>1, <1>2 DEF JobOK
<1>5. ~Reloads(j)
  BY <1>1 DEF Reloads
<1>6. Begin(p, j)
  BY DEF j
<1>7. QED
  BY <1>1, <1>2, <1>3, <1>4, <1>5, <1>6, Begins

(* crypt_suspend begins; it has seen where the key came from.              *)
LEMMA SuspendBegins ==
    ASSUME ActivationInv, ~careless, NEW p \in Proc, crypt_suspend(p)
    PROVE  ActivationInv'
<1>1. /\ kind # "tcrypt" /\ "n" \in DOMAIN dm /\ dm["n"].live.what = "crypt" /\ ~dm["n"].susp /\ MayUse
      /\ Begin(p, Job("suspend", "suspend", KeySeen("n")))
  BY DEF crypt_suspend, IsCrypt, Exists, Suspended
<1>2. dm["n"].live.desc = via
  BY <1>1, RunsWithKey
<1>3. KeySeen("n") \in {"described", "bare"} /\ (via => KeySeen("n") = "described")
  BY <1>1, <1>2 DEF KeySeen, IsCrypt, Exists
<1>4. kind \in KindsAt("suspend") /\ "suspend" \in PlacesOf("suspend")
  BY Parts DEF KindsAt, PlacesOf, Staging
<1>5. Free("suspend")
  BY FreeAre
<1>6. QED
  BY <1>1, <1>3, <1>4, <1>5, UseBegins

(* crypt_resume_by_passphrase begins.                                      *)
LEMMA ResumeBegins ==
    ASSUME ActivationInv, ~careless, NEW p \in Proc, crypt_resume(p)
    PROVE  ActivationInv'
<1>1. kind \in KindsAt("set key") /\ "set key" \in PlacesOf("resume")
  BY Parts DEF KindsAt, PlacesOf, Staging
<1>2. Free("set key")
  BY FreeAre
<1>3. PICK k \in KeysOf("resume") : Begin(p, Job("set key", "resume", k))
  BY DEF crypt_resume
<1>4. k \in {"vk", "twin"} /\ kind # "tcrypt" /\ MayUse
  BY <1>3 DEF KeysOf, crypt_resume
<1>5. QED
  BY <1>1, <1>2, <1>3, <1>4, UseBegins

(* crypt_deactivate_by_name begins.                                        *)
LEMMA CloseBegins ==
    ASSUME ActivationInv, ~careless, NEW p \in Proc, crypt_deactivate_by_name(p)
    PROVE  ActivationInv'
<1>1. kind \in KindsAt("remove n") /\ "remove n" \in PlacesOf("close")
  BY Parts DEF KindsAt, PlacesOf, Staging
<1>2. KeySeen("n") \in {"described", "bare"}
  BY DEF KeySeen
<1>3. Free("remove n")
  BY FreeAre
<1>4. QED
  BY <1>1, <1>2, <1>3, UseBegins DEF crypt_deactivate_by_name

-----------------------------------------------------------------------------
(* Calls go on and return                                                  *)

(* One process has another key in its keyring, or none.                    *)
LEMMA RingSet ==
    ASSUME ActivationInv, NEW p \in Proc, NEW c \in {"none", "vk", "twin"}, NEW b \in BOOLEAN,
           c # "none" <=> b, b => via,
           ring' = [ring EXCEPT ![p] = c], inring' = [inring EXCEPT ![p] = b], last' = last,
           job'[p] # Idle, \A q \in Proc : q # p => job'[q] = job[q]
    PROVE  RingPart(job', via, ring', inring', last')
<1>1. /\ ring \in [Proc -> {"none", "vk", "twin"}] /\ inring \in [Proc -> BOOLEAN] /\ DOMAIN last = Proc
      /\ \A q \in Proc : ring[q] # "none" <=> inring[q]
      /\ \A q \in Proc : inring[q] => via /\ (job[q] = Idle => last[q] \in {"ok", "closed", "refused"})
  BY DEF ActivationInv, RingPart
<1>2. ring' \in [Proc -> {"none", "vk", "twin"}] /\ inring' \in [Proc -> BOOLEAN]
  BY <1>1
<1>3. /\ ring'[p] = c /\ inring'[p] = b
      /\ \A q \in Proc : q # p => ring'[q] = ring[q] /\ inring'[q] = inring[q]
  BY <1>1
<1>4. \A q \in Proc : ring'[q] # "none" <=> inring'[q]
  BY <1>1, <1>3
<1>5. \A q \in Proc : inring'[q] => via /\ (job'[q] = Idle => last'[q] \in {"ok", "closed", "refused"})
  BY <1>1, <1>3
<1>6. QED
  BY <1>1, <1>2, <1>4, <1>5 DEF RingPart

(* The volume key goes into the keyring of the process.                    *)
LEMMA RingLoads ==
    ASSUME ActivationInv, NEW p \in Proc, job[p].at # "idle", NEW a, Go(p, a), a # "idle", last' = last,
           job[p].key \in {"vk", "twin"}, IF via THEN LoadKeyring(p) ELSE KeepKeyring
    PROVE  RingPart(job', via, ring', inring', last')
<1>1. job' = [job EXCEPT ![p] = To(p, a)] /\ To(p, a).at = a
  BY GoIs, ToIs
<1>2. job'[p] # Idle /\ \A q \in Proc : q # p => job'[q] = job[q]
  BY <1>1 DEF ActivationInv, Idle
<1>3. CASE via
  <2>1. ring' = [ring EXCEPT ![p] = job[p].key] /\ inring' = [inring EXCEPT ![p] = TRUE]
    BY <1>3 DEF LoadKeyring
  <2>2. job[p].key \in {"none", "vk", "twin"} /\ job[p].key # "none"
    OBVIOUS
  <2>3. QED
    BY <1>2, <1>3, <2>1, <2>2, RingSet
<1>4. CASE ~via
  BY <1>2, <1>4 DEF KeepKeyring, ActivationInv, RingPart
<1>5. QED
  BY <1>3, <1>4

(* The keyslot is opened and the key put into the keyring.                 *)
LEMMA OpenKeyStep ==
    ASSUME ActivationInv, NEW p \in Proc, OpenKey(p)
    PROVE  ActivationInv'
<1>1. job[p].at = "open" /\ Go(p, "check")
      /\ UNCHANGED <<dm, kind, via, used, locked, deaths, last>>
  BY DEF OpenKey, At, Rest
<1>2. JobOK(job[p], kind, via) /\ job[p].at # "idle"
  BY <1>1, Here
<1>3. job[p].op \in {"activate", "refresh"}
  BY <1>1, <1>2, CallAt
<1>4. "check" \in PlacesOf(job[p].op) /\ kind \in KindsAt("check")
  BY <1>3, Parts DEF PlacesOf, KindsAt, Entering, Staging
<1>5. RingPart(job', via, ring', inring', last')
  <2>1. job[p].key \in {"vk", "twin"}
    BY <1>2, <1>3 DEF JobOK
  <2>2. IF via THEN LoadKeyring(p) ELSE KeepKeyring
    BY DEF OpenKey
  <2>3. QED
    BY <1>1, <1>2, <2>1, <2>2, RingLoads
<1>6. Light("open") /\ Free("check")
  BY LightAre, FreeAre
<1>7. QED
  BY <1>1, <1>2, <1>4, <1>5, <1>6, LightGoes

(* check_devices: a refresh goes on only with the whole stack.             *)
LEMMA CheckStep ==
    ASSUME ActivationInv, NEW p \in Proc, check_devices(p)
    PROVE  ActivationInv'
<1> DEFINE there == \A i \in DOMAIN Stack : Exists(dm, Stack[i])
<1>1. /\ job[p].at = "check" /\ UNCHANGED <<dm, kind, via, used, locked, deaths, last, ring, inring>>
      /\ \/ Go(p, "query") /\ job[p].op = "refresh" /\ there
         \/ Go(p, "create 1") \/ Go(p, "failed")
  BY DEF check_devices, At, Rest, KeepKeyring
<1>2. JobOK(job[p], kind, via) /\ job[p].at # "idle"
  BY <1>1, Here
<1>3. job[p].op \in {"activate", "refresh"}
  BY <1>1, <1>2, CallAt
<1>4. kind \in {"crypt", "integrity", "tcrypt"}
  BY Parts
<1>5. /\ "create 1" \in PlacesOf(job[p].op) /\ "failed" \in PlacesOf(job[p].op)
      /\ kind \in KindsAt("create 1") /\ kind \in KindsAt("failed") /\ kind \in KindsAt("query")
  BY <1>3, <1>4 DEF PlacesOf, KindsAt, Entering, Staging
<1>6. Light("check") /\ Free("create 1") /\ Free("failed")
  BY LightAre, FreeAre
<1>7. CASE Go(p, "create 1")
  BY <1>1, <1>2, <1>5, <1>6, <1>7, RingGoes, LightGoes
<1>8. CASE Go(p, "failed")
  BY <1>1, <1>2, <1>5, <1>6, <1>8, RingGoes, LightGoes
<1>9. CASE Go(p, "query") /\ job[p].op = "refresh" /\ there
  <2>1. \E i \in DOMAIN Stack : Stack[i] = "n"
    <3>1. CASE kind = "crypt"
      BY <3>1, StackIs
    <3>2. CASE kind = "integrity"
      BY <3>2, StackIs
    <3>3. CASE kind = "tcrypt"
      BY <3>3, StackIs
    <3>4. QED
      BY <1>4, <3>1, <3>2, <3>3
  <2>2. "n" \in DOMAIN dm
    BY <1>9, <2>1 DEF Exists
  <2>3. DOMAIN dm = Names(kind)
    BY <2>2, Parts, WholeStack
  <2>4. /\ ReloadOK("query", dm, kind) /\ OwnerOK("query", dm, kind) /\ "query" \notin Owning
        /\ "query" \notin Working
    BY <2>3 DEF ReloadOK, OwnerOK, Owning, Working, Staging
  <2>5. "query" \in PlacesOf(job[p].op)
    BY <1>9 DEF PlacesOf
  <2>6. RingPart(job', via, ring', inring', last')
    BY <1>1, <1>2, <1>9, RingGoes
  <2>7. /\ \A x : job[p].at \notin LoadedAt(x) /\ job[p].at \notin SuspendedAt(x)
        /\ job[p].at \notin Owning /\ job[p].at \notin {"resume n", "fatal"}
    BY <1>1 DEF LoadedAt, SuspendedAt, Owning
  <2>8. QED
    BY <1>1, <1>2, <1>5, <1>9, <2>4, <2>5, <2>6, <2>7, Goes
<1>10. QED
  BY <1>1, <1>7, <1>8, <1>9

(* A failed call drops its key and returns.                                *)
LEMMA FailedStep ==
    ASSUME ActivationInv, NEW p \in Proc, Failed(p)
    PROVE  ActivationInv'
<1>1. /\ job[p].at = "failed" /\ UNCHANGED <<dm, kind, via, used, locked, deaths>>
      /\ (End(p, "failed") /\ DropKeyring(p)) \/ (End(p, "refused") /\ KeepKeyring)
  BY DEF Failed, At, Rest
<1>2. Light("failed")
  BY LightAre
<1>3. RingPart(job', via, ring', inring', last')
  BY <1>1, RingEnds
<1>4. QED
  BY <1>1, <1>2, <1>3, LightEnds

(* A call returns 0 and its key stays.                                     *)
LEMMA SucceededStep ==
    ASSUME ActivationInv, NEW p \in Proc, Succeeded(p)
    PROVE  ActivationInv'
<1>1. /\ job[p].at = "done" /\ UNCHANGED <<dm, kind, via, used, locked, deaths>> /\ End(p, "ok")
      /\ KeepKeyring
  BY DEF Succeeded, At, Rest
<1>2. Light("done")
  BY LightAre
<1>3. RingPart(job', via, ring', inring', last')
  BY <1>1, RingEnds
<1>4. QED
  BY <1>1, <1>2, <1>3, LightEnds

(* crypt_deactivate_by_name returns.                                       *)
LEMMA DeactivatedStep ==
    ASSUME ActivationInv, NEW p \in Proc, Deactivated(p)
    PROVE  ActivationInv'
<1>1. /\ job[p].at = "removed" /\ UNCHANGED <<dm, kind, via, used, locked, deaths>> /\ End(p, "closed")
      /\ KeepKeyring
  BY DEF Deactivated, At, Rest
<1>2. Light("removed")
  BY LightAre
<1>3. RingPart(job', via, ring', inring', last')
  BY <1>1, RingEnds
<1>4. QED
  BY <1>1, <1>2, <1>3, LightEnds

(* What a device may have for a live table.                                *)
LEMMA LiveIs ==
    ASSUME ActivationInv, NEW x \in DOMAIN dm, dm[x].live.what = "crypt"
    PROVE  /\ dm[x].live \in CryptTables /\ dm[x].live # ErrorTable
           /\ dm[x].live.key \in {"vk", "twin", "wiped"} /\ dm[x].live.desc \in BOOLEAN
           /\ dm[x].live.key \in {"vk", "twin"} => dm[x].live.desc = via
           /\ dm[x].live.key = "wiped" => ~dm[x].live.desc /\ dm[x].susp
<1>1. DevOK(dm[x], x, kind, via)
  BY Parts
<1>2. dm[x].live \in CryptTables
  BY <1>1 DEF DevOK, LiveOK, ErrorTable, IntegrityTables
<1>3. dm[x].live.key \in {"vk", "twin", "wiped"} /\ dm[x].live.desc \in BOOLEAN /\ dm[x].live # ErrorTable
  BY <1>2 DEF CryptTables, ErrorTable
<1>4. (dm[x].live.key \in {"vk", "twin"} => dm[x].live.desc = via) /\ (dm[x].live.key = "wiped" => ~dm[x].live.desc)
  BY <1>1 DEF DevOK, LiveOK, ErrorTable, IntegrityTables
<1>5. dm[x].live.key = "wiped" => dm[x].susp
  BY <1>1 DEF DevOK
<1>6. QED
  BY <1>2, <1>3, <1>4, <1>5

(* A refresh goes on only with the key that the device has.                *)
LEMMA QueryStep ==
    ASSUME ActivationInv, NEW p \in Proc, QueryRefresh(p)
    PROVE  ActivationInv'
<1> DEFINE passes == MayReadKey("n") /\ crypt_compare_dm_devices(p)
<1>1. /\ job[p].at = "query" /\ UNCHANGED <<dm, kind, via, used, locked, deaths, last, ring, inring>>
      /\ Go(p, IF ~passes THEN "failed" ELSE IF kind = "integrity" THEN "load i" ELSE "load")
  BY DEF QueryRefresh, At, Rest, KeepKeyring
<1>2. JobOK(job[p], kind, via) /\ job[p].at # "idle" /\ ReloadOK(job[p].at, dm, kind)
  BY <1>1, Here
<1>3. job[p].op \in {"refresh", "resize"}
  BY <1>1, <1>2, CallAt
<1>4. kind \in {"crypt", "integrity"} /\ (job[p].op = "resize" => kind = "crypt")
  BY <1>2, <1>3, Parts DEF JobOK
<1>5. CASE ~passes
  <2>1. /\ "failed" \in PlacesOf(job[p].op) /\ kind \in KindsAt("failed") /\ Light("query")
        /\ Free("failed")
    BY <1>3, <1>4, LightAre, FreeAre DEF PlacesOf, KindsAt, Entering, Staging
  <2>2. Go(p, "failed")
    BY <1>1, <1>5
  <2>3. RingPart(job', via, ring', inring', last')
    BY <1>1, <2>2, RingGoes
  <2>4. QED
    BY <1>1, <2>1, <2>2, <2>3, LightGoes
<1>6. CASE passes
  <2> DEFINE a == IF kind = "integrity" THEN "load i" ELSE "load"
  <2>1. "n" \in DOMAIN dm /\ dm["n"].live.what = "crypt" /\ ~dm["n"].susp
    BY <1>6 DEF MayReadKey, IsCrypt, Exists, Suspended
  <2>2. dm["n"].live.key \in {"vk", "twin"}
    BY <2>1, RunsWithKey
  <2>3. a \in PlacesOf(job[p].op) /\ kind \in KindsAt(a) /\ a \in {"load", "load i"} /\ a \notin Owning
    BY <1>3, <1>4 DEF PlacesOf, KindsAt, Working, Staging, Owning
  <2>4. DOMAIN dm = Names(kind)
    BY <1>1, <1>2 DEF ReloadOK
  <2> HIDE DEF a
  <2>5. ReloadOK(a, dm, kind) /\ OwnerOK(a, dm, kind)
    BY <2>1, <2>2, <2>3, <2>4 DEF ReloadOK, OwnerOK
  <2>6. Go(p, a) /\ a # "idle"
    BY <1>1, <1>6, <2>3 DEF a
  <2>7. RingPart(job', via, ring', inring', last')
    BY <1>1, <2>6, RingGoes
  <2>8. /\ \A x : job[p].at \notin LoadedAt(x) /\ job[p].at \notin SuspendedAt(x)
        /\ job[p].at \notin Owning /\ job[p].at \notin {"resume n", "fatal"}
    BY <1>1 DEF LoadedAt, SuspendedAt, Owning
  <2>9. QED
    BY <1>1, <1>2, <2>2, <2>3, <2>5, <2>6, <2>7, <2>8, Goes
<1>7. QED
  BY <1>5, <1>6

-----------------------------------------------------------------------------
(* Surroundings                                                            *)

(* A mount, an unmount, or nothing.                                        *)
LEMMA SameButUsed ==
    ASSUME ActivationInv, UNCHANGED <<dm, kind, via, job, ring, inring, last, locked, deaths>>,
           used' => "n" \in DOMAIN dm
    PROVE  ActivationInv'
<1>1. (Calm' <=> Calm) /\ (Calmer' <=> Calmer)
  BY DEF Calm, Calmer
<1>2. QED
  BY <1>1 DEF ActivationInv

(* A process that dies takes its keyring with it; what it has left of the  *)
(* devices is what the type of them allows.                                *)
LEMMA DieStep ==
    ASSUME ActivationInv, NEW p \in Proc, Die(p)
    PROVE  ActivationInv'
<1>1. /\ job[p] # Idle /\ deaths' = deaths + 1 /\ job' = [job EXCEPT ![p] = Idle]
      /\ UNCHANGED <<dm, kind, via, used, locked>>
      /\ ring' = [ring EXCEPT ![p] = "none"] /\ inring' = [inring EXCEPT ![p] = FALSE]
      /\ last' = [last EXCEPT ![p] = "died"]
  BY DEF Die, End
<1>2. deaths' # 0 /\ deaths' \in Nat
  BY <1>1, Parts
<1>3. ~Calm' /\ ~Calmer'
  BY <1>2 DEF Calm, Calmer
<1>4. job'[p] = Idle /\ (\A q \in Proc : q # p => job'[q] = job[q]) /\ job' = [q \in Proc |-> job'[q]]
  BY <1>1 DEF ActivationInv
<1>5. JobPart(job', dm', kind', via')
  BY <1>1, <1>4 DEF ActivationInv, JobPart
<1>6. AlonePart(job')
  <2>1. Idle.at \notin Owning /\ ~Reloads(Idle)
    BY DEF Idle, Owning, Reloads
  <2>2. QED
    BY <1>4, <2>1 DEF ActivationInv, AlonePart
<1>7. RingPart(job', via', ring', inring', last')
  BY <1>1, <1>4 DEF ActivationInv, RingPart
<1>8. QED
  BY <1>1, <1>2, <1>3, <1>4, <1>5, <1>6, <1>7 DEF ActivationInv

(* Nothing is mapped at first.                                             *)
LEMMA InitHolds == Init => ActivationInv
<1> SUFFICES ASSUME Init PROVE ActivationInv
  OBVIOUS
<1>1. /\ DOMAIN dm = {} /\ dm = [x \in DOMAIN dm |-> dm[x]] /\ kind \in {"crypt", "integrity", "tcrypt"}
      /\ via \in BOOLEAN
      /\ (kind = "tcrypt" => ~via) /\ used = FALSE /\ locked = FALSE /\ deaths = 0 /\ deaths \in Nat
      /\ (\A p \in Proc : job[p] = Idle) /\ job = [p \in Proc |-> job[p]]
  BY ActivationConstants DEF Init
<1>2. DmOK(dm, kind, via)
  BY <1>1 DEF DmOK, Prefixes
<1>3. JobPart(job, dm, kind, via) /\ AlonePart(job)
  <2>1. Idle.at \notin Owning /\ ~Reloads(Idle)
    BY DEF Idle, Owning, Reloads
  <2>2. QED
    BY <1>1, <2>1 DEF JobPart, AlonePart
<1>4. RingPart(job, via, ring, inring, last)
  BY DEF Init, RingPart
<1>5. /\ LoadPart(dm, job) /\ LockPart(dm, locked) /\ SuspPart(dm, job, locked) /\ WholePart(dm, job, kind)
      /\ VerPart(dm, job, kind)
  BY <1>1 DEF LoadPart, LockPart, SuspPart, WholePart, VerPart, Names
<1>6. QED
  BY <1>1, <1>2, <1>3, <1>4, <1>5 DEF ActivationInv

-----------------------------------------------------------------------------
(* What the device-mapper calls do to devices                              *)

(* The kinds of tables are different.                                      *)
LEMMA TableKinds ==
    /\ \A t \in CryptTables : t # NoTable /\ t # ErrorTable /\ t.what = "crypt" /\ t \in Tables
    /\ \A t \in IntegrityTables : t # NoTable /\ t # ErrorTable /\ t.what = "integrity" /\ t \in Tables
    /\ NoTable.what = "none" /\ ErrorTable.what = "error" /\ NoTable # ErrorTable
    /\ NoTable \in Tables /\ ErrorTable \in Tables
<1>1. \A t \in CryptTables : t.what = "crypt" /\ t \in Tables
  BY DEF CryptTables, Tables
<1>2. \A t \in IntegrityTables : t.what = "integrity" /\ t \in Tables
  BY DEF IntegrityTables, Tables
<1>3. NoTable.what = "none" /\ ErrorTable.what = "error" /\ NoTable \in Tables /\ ErrorTable \in Tables
  BY DEF NoTable, ErrorTable, Tables
<1>4. QED
  BY <1>1, <1>2, <1>3

(* A device of given parts.                                                *)
Dev(t, u, s) == [live |-> t, load |-> u, susp |-> s]

(* The parts of a device.                                                  *)
LEMMA DevIs ==
    ASSUME NEW t \in Tables, NEW u \in Tables, NEW s \in BOOLEAN
    PROVE  Dev(t, u, s).live = t /\ Dev(t, u, s).load = u /\ Dev(t, u, s).susp = s /\ Dev(t, u, s) \in Devices
  BY DEF Dev, Devices

(* A device is what its parts are.                                         *)
LEMMA DevOf ==
    ASSUME NEW e \in Devices
    PROVE  /\ e.live \in Tables /\ e.load \in Tables /\ e.susp \in BOOLEAN /\ e = Dev(e.live, e.load, e.susp)
           /\ \A t : [e EXCEPT !.load = t] = Dev(e.live, t, e.susp)
           /\ \A s : [e EXCEPT !.susp = s] = Dev(e.live, e.load, s)
           /\ \A t : [e EXCEPT !.live = t] = Dev(t, e.load, e.susp)
           /\ [[e EXCEPT !.susp = TRUE] EXCEPT !.load = NoTable] = Dev(e.live, NoTable, TRUE)
           /\ [[e EXCEPT !.load = NoTable] EXCEPT !.susp = FALSE] = Dev(e.live, NoTable, FALSE)
<1>1. e.live \in Tables /\ e.load \in Tables /\ e.susp \in BOOLEAN /\ e = Dev(e.live, e.load, e.susp)
  BY DEF Dev, Devices
<1>2. \A t : [Dev(e.live, e.load, e.susp) EXCEPT !.load = t] = Dev(e.live, t, e.susp)
  BY DEF Dev
<1>3. \A s : [Dev(e.live, e.load, e.susp) EXCEPT !.susp = s] = Dev(e.live, e.load, s)
  BY DEF Dev
<1>4. \A t : [Dev(e.live, e.load, e.susp) EXCEPT !.live = t] = Dev(t, e.load, e.susp)
  BY DEF Dev
<1>5. \A s : [Dev(e.live, e.load, s) EXCEPT !.load = NoTable] = Dev(e.live, NoTable, s)
  BY DEF Dev
<1>6. \A s : [Dev(e.live, NoTable, e.susp) EXCEPT !.susp = s] = Dev(e.live, NoTable, s)
  BY DEF Dev
<1>7. \A t : [e EXCEPT !.load = t] = Dev(e.live, t, e.susp)
  BY <1>1, <1>2, Zenon
<1>8. \A s : [e EXCEPT !.susp = s] = Dev(e.live, e.load, s)
  BY <1>1, <1>3, Zenon
<1>9. \A t : [e EXCEPT !.live = t] = Dev(t, e.load, e.susp)
  BY <1>1, <1>4, Zenon
<1>10. [[e EXCEPT !.susp = TRUE] EXCEPT !.load = NoTable] = Dev(e.live, NoTable, TRUE)
  BY <1>5, <1>8, Zenon
<1>11. [[e EXCEPT !.load = NoTable] EXCEPT !.susp = FALSE] = Dev(e.live, NoTable, FALSE)
  BY <1>6, <1>7, Zenon
<1>12. QED
  BY <1>1, <1>7, <1>8, <1>9, <1>10, <1>11

(* Device x has these parts now; the others are what they were.            *)
Same(f, d, S) == \A y \in S : f[y] = d[y]
Has(f, d, x, t, u, s) ==
    /\ DOMAIN f = DOMAIN d /\ f[x].live = t /\ f[x].load = u /\ (f[x].susp <=> s)
    /\ Same(f, d, DOMAIN d \ {x})

(* One device changes.                                                     *)
OnlyNew(f, d, x, e) ==
    f = [y \in DOMAIN f |-> f[y]] /\ DOMAIN f = DOMAIN d /\ f[x] = e /\ \A y \in DOMAIN d : y # x => f[y] = d[y]

(* One device that changes within its type keeps the type of all.          *)
LEMMA OneDevice ==
    ASSUME NEW d, NEW k, NEW v, DmOK(d, k, v), NEW x \in DOMAIN d, NEW e, DevOK(e, x, k, v),
           NEW f, OnlyNew(f, d, x, e)
    PROVE  DmOK(f, k, v)
  BY DEF DmOK, OnlyNew

(* _dm_reload_device: only the inactive table of x changes.                *)
LEMMA LoadedIs ==
    ASSUME NEW d, NEW k, NEW v, DmOK(d, k, v), NEW x \in DOMAIN d, NEW t \in Tables, LoadOK(t, x, k, v)
    PROVE  DmOK(Loaded(d, x, t), k, v) /\ Has(Loaded(d, x, t), d, x, d[x].live, t, d[x].susp)
<1> DEFINE e == Dev(d[x].live, t, d[x].susp)
<1>1. DevOK(d[x], x, k, v) /\ d[x] \in Devices
  BY DEF DmOK, DevOK
<1>2. d[x].live \in Tables /\ d[x].susp \in BOOLEAN /\ [d[x] EXCEPT !.load = t] = e
  BY <1>1, DevOf
<1>3. e.live = d[x].live /\ e.load = t /\ e.susp = d[x].susp /\ e \in Devices
  BY <1>2, DevIs
<1>4. Loaded(d, x, t) = [d EXCEPT ![x] = e]
  BY <1>2 DEF Loaded
<1> HIDE DEF e
<1>5. DevOK(e, x, k, v)
  BY <1>1, <1>3 DEF DevOK
<1>6. OnlyNew(Loaded(d, x, t), d, x, e) /\ DmOK(Loaded(d, x, t), k, v)
  <2>1. OnlyNew(Loaded(d, x, t), d, x, e)
    BY <1>4 DEF DmOK, OnlyNew
  <2>2. QED
    BY <2>1, <1>5, OneDevice
<1>7. QED
  BY <1>3, <1>6 DEF OnlyNew, Same, Has

(* Suspend: x is suspended, and its tables stay.                           *)
LEMMA SuspendedIs ==
    ASSUME NEW d, NEW k, NEW v, DmOK(d, k, v), NEW x \in DOMAIN d
    PROVE  DmOK(SuspendedNow(d, x), k, v) /\ Has(SuspendedNow(d, x), d, x, d[x].live, d[x].load, TRUE)
<1> DEFINE e == Dev(d[x].live, d[x].load, TRUE)
<1>1. DevOK(d[x], x, k, v) /\ d[x] \in Devices
  BY DEF DmOK, DevOK
<1>2. d[x].live \in Tables /\ d[x].load \in Tables /\ [d[x] EXCEPT !.susp = TRUE] = e
  BY <1>1, DevOf
<1>3. e.live = d[x].live /\ e.load = d[x].load /\ e.susp = TRUE /\ e \in Devices
  BY <1>2, DevIs
<1>4. SuspendedNow(d, x) = [d EXCEPT ![x] = e]
  BY <1>2 DEF SuspendedNow
<1> HIDE DEF e
<1>5. DevOK(e, x, k, v)
  BY <1>1, <1>3 DEF DevOK
<1>6. OnlyNew(SuspendedNow(d, x), d, x, e) /\ DmOK(SuspendedNow(d, x), k, v)
  <2>1. OnlyNew(SuspendedNow(d, x), d, x, e)
    BY <1>4 DEF DmOK, OnlyNew
  <2>2. QED
    BY <2>1, <1>5, OneDevice
<1>7. QED
  BY <1>3, <1>6 DEF OnlyNew, Same, Has

(* A resume that fails: x is suspended and has lost its inactive table.    *)
LEMMA StuckIs ==
    ASSUME NEW d, NEW k, NEW v, DmOK(d, k, v), NEW x \in DOMAIN d
    PROVE  DmOK(ResumeStuck(d, x), k, v) /\ Has(ResumeStuck(d, x), d, x, d[x].live, NoTable, TRUE)
<1> DEFINE e == Dev(d[x].live, NoTable, TRUE)
<1>1. DevOK(d[x], x, k, v) /\ d[x] \in Devices
  BY DEF DmOK, DevOK
<1>2. d[x].live \in Tables /\ [[d[x] EXCEPT !.susp = TRUE] EXCEPT !.load = NoTable] = e
  BY <1>1, DevOf
<1>3. e.live = d[x].live /\ e.load = NoTable /\ e.susp = TRUE /\ e \in Devices
  BY <1>2, TableKinds, DevIs
<1>4. ResumeStuck(d, x) = [d EXCEPT ![x] = e]
  BY <1>2 DEF ResumeStuck
<1> HIDE DEF e
<1>5. DevOK(e, x, k, v)
  BY <1>1, <1>3 DEF DevOK, LoadOK
<1>6. OnlyNew(ResumeStuck(d, x), d, x, e) /\ DmOK(ResumeStuck(d, x), k, v)
  <2>1. OnlyNew(ResumeStuck(d, x), d, x, e)
    BY <1>4 DEF DmOK, OnlyNew
  <2>2. QED
    BY <2>1, <1>5, OneDevice
<1>7. QED
  BY <1>3, <1>6 DEF OnlyNew, Same, Has

(* A loaded table may be live.                                             *)
LEMMA MayBeLive ==
    ASSUME NEW t, NEW x, NEW k, NEW v, LoadOK(t, x, k, v), t # NoTable
    PROVE  LiveOK(t, x, k, v) /\ t # ErrorTable /\ ~(t.what = "crypt" /\ t.key = "wiped")
<1>1. CASE x = "n_dif" /\ t \in IntegrityTables
  BY <1>1, TableKinds DEF LiveOK
<1>2. CASE x = "n" /\ t \in CryptTables /\ t.over = Under(k, x) /\ t.key \in {"vk", "twin"} /\ t.desc = v
  BY <1>2, TableKinds DEF LiveOK
<1>3. QED
  BY <1>1, <1>2 DEF LoadOK

Swapped(e) == IF e.load = NoTable THEN e.live ELSE e.load

(* _dm_resume_device: the inactive table is live, and has a key.           *)
LEMMA ResumedIs ==
    ASSUME NEW d, NEW k, NEW v, DmOK(d, k, v), NEW x \in DOMAIN d,
           d[x].load # NoTable \/ (d[x].live.what = "crypt" => d[x].live.key # "wiped")
    PROVE  /\ DmOK(Resumed(d, x), k, v) /\ Has(Resumed(d, x), d, x, Swapped(d[x]), NoTable, FALSE)
           /\ ~(Swapped(d[x]).what = "crypt" /\ Swapped(d[x]).key = "wiped")
           /\ d[x].load # NoTable => Swapped(d[x]) # ErrorTable
<1> DEFINE t == Swapped(d[x])
           e == Dev(t, NoTable, FALSE)
<1>1. DevOK(d[x], x, k, v) /\ d[x] \in Devices
  BY DEF DmOK, DevOK
<1>2. t \in Tables
  BY <1>1, DevOf DEF Swapped
<1>3. /\ LiveOK(t, x, k, v) /\ ~(t.what = "crypt" /\ t.key = "wiped")
      /\ (d[x].load # NoTable => t # ErrorTable)
  <2>1. CASE d[x].load = NoTable
    BY <1>1, <2>1 DEF DevOK, Swapped
  <2>2. CASE d[x].load # NoTable
    BY <1>1, <2>2, MayBeLive DEF DevOK, Swapped
  <2>3. QED
    BY <2>1, <2>2
<1>4. e.live = t /\ e.load = NoTable /\ e.susp = FALSE /\ e \in Devices
  BY <1>2, TableKinds, DevIs
<1>5. Resumed(d, x) = [d EXCEPT ![x] = e]
  BY DEF Resumed, Device, Swapped, Dev
<1> HIDE DEF e, t
<1>6. DevOK(e, x, k, v)
  BY <1>3, <1>4 DEF DevOK, LoadOK
<1>7. OnlyNew(Resumed(d, x), d, x, e) /\ DmOK(Resumed(d, x), k, v)
  <2>1. OnlyNew(Resumed(d, x), d, x, e)
    BY <1>5 DEF DmOK, OnlyNew
  <2>2. QED
    BY <2>1, <1>6, OneDevice
<1>8. QED
  BY <1>3, <1>4, <1>7 DEF t, OnlyNew, Same, Has

-----------------------------------------------------------------------------
(* Keys, new devices and removed ones                                      *)

(* Table of "n" with this key.                                             *)
Keyed(d, c, b) == [d EXCEPT !["n"].live.key = c, !["n"].live.desc = b]

(* A message of the key to a suspended device: only the key changes.       *)
LEMMA KeyIs ==
    ASSUME ActivationInv, "n" \in DOMAIN dm, dm["n"].live.what = "crypt", dm["n"].susp,
           NEW c \in {"vk", "twin", "wiped"}, NEW b \in BOOLEAN, (c \in {"vk", "twin"} => b = via), (c = "wiped" => ~b),
           NEW f, f = Keyed(dm, c, b)
    PROVE  /\ DmOK(f, kind, via) /\ DOMAIN f = DOMAIN dm
           /\ f["n"].live.what = "crypt" /\ f["n"].live.key = c /\ f["n"].live # ErrorTable
           /\ f["n"].live.ver = dm["n"].live.ver /\ f["n"].load = dm["n"].load /\ f["n"].susp
           /\ Same(f, dm, DOMAIN dm \ {"n"})
<1>1. DmOK(dm, kind, via) /\ DevOK(dm["n"], "n", kind, via) /\ dm["n"].live \in CryptTables
  BY Parts, LiveIs
<1>2. dm["n"] \in Devices
  BY <1>1 DEF DevOK
<1>3. dm["n"].live.over = Under(kind, "n")
  BY <1>1, TableKinds DEF DevOK, LiveOK
<1>4. f["n"].live.key = c /\ f["n"].live.desc = b
  BY <1>1, <1>2 DEF CryptTables, Devices, Keyed
<1>5. /\ f["n"].live.over = dm["n"].live.over /\ f["n"].live.ver = dm["n"].live.ver
      /\ f["n"].live.what = dm["n"].live.what
  BY <1>1, <1>2 DEF CryptTables, Devices, Keyed
<1>6. f["n"].live \in CryptTables
  BY <1>1, <1>2 DEF CryptTables, Devices, Keyed
<1>7. f["n"].load = dm["n"].load /\ f["n"].susp = dm["n"].susp
  BY <1>1, <1>2 DEF CryptTables, Devices, Keyed
<1>8. f["n"] \in Devices
  <2>1. f["n"].live \in Tables
    BY <1>6, TableKinds
  <2>2. QED
    BY <1>1, <1>2, <2>1 DEF Devices, Keyed
<1>9. /\ DOMAIN f = DOMAIN dm /\ f = [y \in DOMAIN f |-> f[y]]
      /\ (\A y \in DOMAIN dm : y # "n" => f[y] = dm[y])
  BY <1>1 DEF DmOK, Keyed
<1>10. DevOK(f["n"], "n", kind, via)
  <2>1. LiveOK(f["n"].live, "n", kind, via)
    BY <1>3, <1>4, <1>5, <1>6 DEF LiveOK
  <2>2. LoadOK(f["n"].load, "n", kind, via)
    BY <1>1, <1>7 DEF DevOK
  <2>3. QED
    BY <1>7, <1>8, <2>1, <2>2 DEF DevOK
<1>11. DmOK(f, kind, via)
  BY <1>1, <1>9, <1>10, OneDevice DEF OnlyNew
<1>12. QED
  BY <1>4, <1>5, <1>6, <1>7, <1>9, <1>11, TableKinds DEF Same

Plus(d, x) == DOMAIN d \cup {x}
Made(f, d, x, t) ==
    DOMAIN f = Plus(d, x) /\ f[x].live = t /\ f[x].load = NoTable /\ ~f[x].susp /\ Same(f, d, DOMAIN d)
Left(f, d, x) == DOMAIN f = DOMAIN d \ {x} /\ Same(f, d, DOMAIN d \ {x})

(* _dm_create_device: x is there, with its table.                          *)
LEMMA CreatedIs ==
    ASSUME NEW d, NEW k, NEW v, NEW x, NEW t, DmOK(d, k, v), x \notin DOMAIN d, Plus(d, x) \in Prefixes(k),
           t \in Tables, LiveOK(t, x, k, v), ~(t.what = "crypt" /\ t.key = "wiped")
    PROVE  DmOK(Created(d, x, t), k, v) /\ Made(Created(d, x, t), d, x, t)
<1> DEFINE f == Created(d, x, t)
           e == Dev(t, NoTable, FALSE)
<1>1. e.live = t /\ e.load = NoTable /\ e.susp = FALSE /\ e \in Devices
  BY TableKinds, DevIs
<1>2. Device(t) = e
  BY DEF Device, Dev
<1> HIDE DEF e
<1>3. DevOK(e, x, k, v)
  BY <1>1 DEF DevOK, LoadOK
<1>4. f = [m \in DOMAIN d \cup {x} |-> IF m = x THEN e ELSE d[m]]
  BY <1>2 DEF Created
<1> HIDE DEF f
<1>5. /\ DOMAIN f = DOMAIN d \cup {x} /\ f = [y \in DOMAIN f |-> f[y]] /\ f[x] = e
      /\ \A y \in DOMAIN d : f[y] = d[y]
  BY <1>4
<1>6. DmOK(f, k, v)
  BY <1>3, <1>5 DEF DmOK, Plus
<1>7. QED
  BY <1>1, <1>5, <1>6 DEF f, Plus, Same, Made

(* _dm_remove: x is gone, and nothing else.                                *)
LEMMA RemovedIs ==
    ASSUME NEW d, NEW k, NEW v, DmOK(d, k, v), NEW x \in DOMAIN d, DOMAIN d \ {x} \in Prefixes(k)
    PROVE  DmOK(Removed(d, x), k, v) /\ Left(Removed(d, x), d, x)
<1> DEFINE f == Removed(d, x)
<1>1. f = [y \in DOMAIN d \ {x} |-> d[y]]
  BY DEF Removed, Restrict
<1> HIDE DEF f
<1>2. DOMAIN f = DOMAIN d \ {x} /\ f = [y \in DOMAIN f |-> f[y]] /\ \A y \in DOMAIN f : f[y] = d[y]
  BY <1>1
<1>3. DmOK(f, k, v)
  BY <1>2 DEF DmOK
<1>4. QED
  BY <1>2, <1>3 DEF f, Same, Left

-----------------------------------------------------------------------------
(* Steps that change the devices                                           *)

(* What is loaded or suspended is so by the process that acts, or by one   *)
(* that only uses the volume.                                              *)
LEMMA AloneIs ==
    ASSUME ActivationInv, NEW p \in Proc, \A q \in Proc \ {p} : Free(job[q].at)
    PROVE  /\ Calm => \A x \in DOMAIN dm : dm[x].load # NoTable => job[p].at \in LoadedAt(x)
           /\ Calmer => \A x \in DOMAIN dm : dm[x].susp =>
                 \/ x = "n" /\ locked
                 \/ job[p].at \in SuspendedAt(x)
                 \/ \E q \in Proc \ {p} : job[q].at \in SuspendedAt(x)
           /\ Calmer => \A x \in DOMAIN dm : (dm[x].susp /\ x # "n") => job[p].at \in SuspendedAt(x)
<1>1. \A x : LoadedAt(x) \subseteq Working /\ (x # "n" => SuspendedAt(x) \subseteq Working)
  BY DEF LoadedAt, SuspendedAt, Working, Staging
<1>2. \A q \in Proc \ {p} : job[q].at \notin Working
  BY DEF Free
<1>3. ASSUME Calm, NEW x \in DOMAIN dm, dm[x].load # NoTable PROVE job[p].at \in LoadedAt(x)
  <2>1. Somebody(job, LoadedAt(x))
    BY <1>3, Parts DEF LoadPart
  <2>2. QED
    BY <1>1, <1>2, <2>1 DEF Somebody
<1>4. ASSUME Calmer, NEW x \in DOMAIN dm, dm[x].susp
      PROVE  /\ \/ x = "n" /\ locked
                \/ job[p].at \in SuspendedAt(x)
                \/ \E q \in Proc \ {p} : job[q].at \in SuspendedAt(x)
             /\ x # "n" => job[p].at \in SuspendedAt(x)
  <2>1. (x = "n" /\ locked) \/ Somebody(job, SuspendedAt(x))
    BY <1>4, Parts DEF SuspPart
  <2>2. QED
    BY <1>1, <1>2, <2>1 DEF Somebody
<1>5. QED
  BY <1>3, <1>4

(* Live tables keep their parameters, or they fit together anew.           *)
SameVer == DOMAIN dm' = DOMAIN dm /\ \A x \in DOMAIN dm :
              (dm'[x].live = ErrorTable <=> dm[x].live = ErrorTable) /\ dm'[x].live.ver = dm[x].live.ver
Fits(a) == \/ dm'["n"].live = ErrorTable /\ dm'["n_dif"].live = ErrorTable
           \/ /\ dm'["n"].live # ErrorTable /\ dm'["n_dif"].live # ErrorTable
              /\ dm'["n"].live.ver = dm'["n_dif"].live.ver \/ a = "resume n"

(* A step that changes the devices and goes on.                            *)
LEMMA ChangesGo ==
    ASSUME ActivationInv, NEW p \in Proc, job[p].at # "idle", NEW a, Go(p, a),
           kind' = kind, via' = via, deaths' = deaths, locked' \in BOOLEAN, used' = used, used => "n" \in DOMAIN dm',
           \A q \in Proc \ {p} : Free(job[q].at),
           DmOK(dm', kind, via),
           a \in PlacesOf(job[p].op), kind \in KindsAt(a),
           ReloadOK(a, dm', kind), OwnerOK(a, dm', kind),
           RingPart(job', via, ring', inring', last'),
           Calm => (\A x \in DOMAIN dm' : dm'[x].load # NoTable => a \in LoadedAt(x)) /\ LockPart(dm', locked'),
           Calmer => \A x \in DOMAIN dm' : dm'[x].susp =>
                        \/ x = "n" /\ locked'
                        \/ a \in SuspendedAt(x)
                        \/ \E q \in Proc \ {p} : job[q].at \in SuspendedAt(x),
           Calmer => DOMAIN dm' \in {{}, Names(kind)} \/ a \in Owning,
           Calmer => \/ kind # "integrity" \/ DOMAIN dm' # Names(kind)
                     \/ SameVer /\ job[p].at \notin {"resume n", "fatal"}
                     \/ Fits(a)
    PROVE  ActivationInv'
<1>1. job' = [job EXCEPT ![p] = To(p, a)]
  BY GoIs
<1>2. To(p, a).at = a /\ To(p, a).op = job[p].op /\ JobOK(To(p, a), kind, via)
  BY ToIs, ToOK
<1>3. job'[p].at = a /\ \A q \in Proc : q # p => job'[q] = job[q]
  BY <1>1, <1>2 DEF ActivationInv
<1>4. ASSUME Calmer PROVE VerPart(dm', job', kind)
  <2>1. CASE kind # "integrity" \/ DOMAIN dm' # Names(kind)
    BY <2>1 DEF VerPart
  <2>2. CASE SameVer /\ job[p].at \notin {"resume n", "fatal"}
    <3>1. VerPart(dm, job, kind)
      BY <1>4, Parts
    <3>2. Somebody(job, {"resume n", "fatal"}) => Somebody(job', {"resume n", "fatal"})
      BY <1>3, <2>2 DEF Somebody
    <3>3. kind = "integrity" => "n" \in Names(kind) /\ "n_dif" \in Names(kind)
      BY DEF Names
    <3>4. QED
      BY <2>2, <3>1, <3>2, <3>3 DEF VerPart, SameVer
  <2>3. CASE Fits(a)
    <3>1. a = "resume n" => Somebody(job', {"resume n", "fatal"})
      BY <1>3 DEF Somebody
    <3>2. QED
      BY <2>3, <3>1 DEF VerPart, Fits
  <2>4. QED
    BY <1>4, <2>1, <2>2, <2>3
<1>5. ReloadOK(To(p, a).at, dm', kind) /\ OwnerOK(To(p, a).at, dm', kind)
  BY <1>2
<1>6. /\ Calm => (\A x \in DOMAIN dm' : dm'[x].load # NoTable => To(p, a).at \in LoadedAt(x)) /\ LockPart(dm', locked')
      /\ Calmer => \A x \in DOMAIN dm' : dm'[x].susp =>
                      \/ x = "n" /\ locked'
                      \/ To(p, a).at \in SuspendedAt(x)
                      \/ \E q \in Proc \ {p} : job[q].at \in SuspendedAt(x)
      /\ Calmer => DOMAIN dm' \in {{}, Names(kind)} \/ To(p, a).at \in Owning
  BY <1>2
<1>7. QED
  BY <1>1, <1>2, <1>4, <1>5, <1>6, Changes

-----------------------------------------------------------------------------
(* A stack is made                                                         *)

(* Places of calls on every kind of volume.                                *)
LEMMA AnyKind ==
    ASSUME ActivationInv
    PROVE  \A a \in {"create 1", "failed", "done", "suspend", "wipe", "unsuspend", "set key", "resume", "removed"} :
              kind \in KindsAt(a)
  BY Parts DEF KindsAt, Staging

(* The table of a new device is a live table that may be.                  *)
LEMMA NewTableIs ==
    ASSUME ActivationInv, NEW p, NEW x \in Names(kind)
    PROVE  /\ NewTable(p, x) \in Tables /\ LiveOK(NewTable(p, x), x, kind, via) /\ NewTable(p, x) # ErrorTable
           /\ ~(NewTable(p, x).what = "crypt" /\ NewTable(p, x).key = "wiped")
           /\ NewTable(p, x).ver = "old" /\ (x = "n_dif" => NewTable(p, x) = IntegrityTable("old"))
           /\ x # "n_dif" => NewTable(p, x).what = "crypt"
<1>1. kind \in {"crypt", "integrity", "tcrypt"} /\ via \in BOOLEAN
  BY Parts
<1>2. CASE x = "n_dif"
  <2>1. /\ NewTable(p, x) = [over |-> {"data"}, what |-> "integrity", ver |-> "old"]
        /\ NewTable(p, x) = IntegrityTable("old")
    BY <1>2 DEF NewTable, IntegrityTable
  <2>2. NewTable(p, x) \in IntegrityTables /\ NewTable(p, x).ver = "old"
    BY <2>1 DEF IntegrityTables
  <2>3. QED
    BY <1>2, <2>1, <2>2, TableKinds DEF LiveOK
<1>3. CASE x # "n_dif"
  <2>1. Over(x) = Under(kind, x) /\ Under(kind, x) \in SUBSET (Name \cup {"data"})
    <3>1. CASE kind = "crypt"
      BY <1>3, <3>1, StackIs DEF Names, Under, Name
    <3>2. CASE kind = "integrity"
      BY <1>3, <3>2, StackIs DEF Names, Under, Name
    <3>3. CASE kind = "tcrypt"
      BY <1>3, <3>3, StackIs DEF Names, Under, Name
    <3>4. QED
      BY <1>1, <3>1, <3>2, <3>3
  <2>2. NewTable(p, x) = [over |-> Under(kind, x), what |-> "crypt", key |-> "vk", desc |-> via, ver |-> "old"]
    BY <1>3, <2>1 DEF NewTable, CryptTable
  <2>3. /\ NewTable(p, x) \in CryptTables /\ NewTable(p, x).over = Under(kind, x)
        /\ NewTable(p, x).key = "vk"
        /\ NewTable(p, x).desc = via /\ NewTable(p, x).ver = "old"
    BY <1>1, <2>1, <2>2 DEF CryptTables
  <2>4. QED
    BY <1>3, <2>3, TableKinds DEF LiveOK
<1>4. QED
  BY <1>2, <1>3

(* The next device of a stack is made, by the process that makes it.       *)
LEMMA CreateOne ==
    ASSUME ActivationInv, NEW p \in Proc, NEW x \in Names(kind), NEW a, Go(p, a),
           UNCHANGED <<kind, via, used, deaths, ring, inring, last, locked>>,
           job[p].at \in {"create 1", "create 2", "create 3"},
           x \notin DOMAIN dm, DOMAIN dm \cup {x} \in Prefixes(kind), dm' = Created(dm, x, NewTable(p, x)),
           \A q \in Proc \ {p} : Free(job[q].at),
           \/ a = "done" /\ DOMAIN dm \cup {x} = Names(kind)
           \/ a \in {"create 2", "create 3"} /\ kind \in KindsAt(a) /\ DOMAIN dm \cup {x} = Partial(a, kind),
           (x = "n" /\ kind = "integrity") => "n_dif" \in DOMAIN dm /\ dm["n_dif"].live = IntegrityTable("old")
    PROVE  ActivationInv'
<1>0. /\ NewTable(p, x) \in Tables /\ LiveOK(NewTable(p, x), x, kind, via) /\ NewTable(p, x) # ErrorTable
      /\ ~(NewTable(p, x).what = "crypt" /\ NewTable(p, x).key = "wiped")
      /\ NewTable(p, x).ver = "old" /\ (x = "n_dif" => NewTable(p, x) = IntegrityTable("old"))
      /\ DmOK(dm, kind, via)
  BY NewTableIs, Parts
<1>1. /\ DmOK(dm', kind, via) /\ DOMAIN dm' = DOMAIN dm \cup {x}
      /\ dm'[x].live = NewTable(p, x) /\ dm'[x].load = NoTable /\ ~dm'[x].susp
      /\ \A y \in DOMAIN dm : dm'[y] = dm[y]
  <2> DEFINE t == NewTable(p, x)
  <2>1. /\ t \in Tables /\ LiveOK(t, x, kind, via) /\ ~(t.what = "crypt" /\ t.key = "wiped")
        /\ dm' = Created(dm, x, t)
    BY <1>0
  <2>2. DmOK(dm, kind, via) /\ Plus(dm, x) \in Prefixes(kind)
    BY <1>0 DEF Plus
  <2> HIDE DEF t
  <2>3. DmOK(dm', kind, via) /\ Made(dm', dm, x, t)
    BY <2>1, <2>2, CreatedIs
  <2>4. QED
    BY <2>3 DEF t, Plus, Same, Made
<1>2. JobOK(job[p], kind, via) /\ job[p].at # "idle" /\ job[p].op \in {"activate", "refresh"}
  BY Here, CallAt
<1>3. kind \in KindsAt(a) /\ a \in PlacesOf(job[p].op) /\ a # "idle" /\ a \notin Working /\ a # "query"
  BY <1>2, AnyKind DEF PlacesOf, Entering, Working, Staging
<1>4. "n" \notin DOMAIN dm /\ kind \in {"crypt", "integrity", "tcrypt"}
  BY Parts, WholeStack
<1>5. ReloadOK(a, dm', kind)
  BY <1>3 DEF ReloadOK, Working, Staging
<1>6. OwnerOK(a, dm', kind)
  <2>1. CASE a = "done"
    BY <2>1 DEF OwnerOK, Owning
  <2>2. CASE a \in {"create 2", "create 3"} /\ DOMAIN dm \cup {x} = Partial(a, kind)
    <3>1. ASSUME a = "create 2", kind = "integrity" PROVE dm'["n_dif"].live = IntegrityTable("old")
      <4>1. x = "n_dif"
        BY <2>2, <3>1 DEF Partial
      <4>2. QED
        BY <1>0, <1>1, <4>1
    <3>2. QED
      BY <1>1, <2>2, <3>1 DEF OwnerOK
  <2>3. QED
    BY <2>1, <2>2
<1>7. RingPart(job', via, ring', inring', last')
  BY <1>2, <1>3, RingGoes
<1>8. \A y : job[p].at \notin LoadedAt(y) /\ job[p].at \notin SuspendedAt(y)
  BY DEF LoadedAt, SuspendedAt
<1>9. ASSUME Calm
      PROVE  (\A y \in DOMAIN dm' : dm'[y].load # NoTable => a \in LoadedAt(y)) /\ LockPart(dm', locked')
  <2>1. \A y \in DOMAIN dm : dm[y].load = NoTable
    BY <1>8, <1>9, AloneIs
  <2>2. ~locked
    BY <1>4, <1>9, Parts DEF LockPart
  <2>3. "n" \in DOMAIN dm' => x = "n"
    BY <1>1, <1>4
  <2>4. QED
    BY <1>0, <1>1, <2>1, <2>2, <2>3 DEF LockPart
<1>10. ASSUME Calmer, NEW y \in DOMAIN dm', dm'[y].susp
       PROVE  \E q \in Proc \ {p} : job[q].at \in SuspendedAt(y)
  <2>1. y \in DOMAIN dm /\ dm[y].susp /\ y # "n"
    BY <1>1, <1>4, <1>10
  <2>2. QED
    BY <1>8, <1>10, <2>1, AloneIs
<1>11. DOMAIN dm' \in {{}, Names(kind)} \/ a \in Owning
  BY <1>1 DEF Owning
<1>12. kind # "integrity" \/ DOMAIN dm' # Names(kind) \/ Fits(a)
  <2>1. ASSUME kind = "integrity", DOMAIN dm' = Names(kind) PROVE Fits(a)
    <3>1. x = "n"
      BY <1>1, <1>4, <2>1 DEF Names
    <3>2. dm'["n"].live # ErrorTable /\ dm'["n"].live.ver = "old"
      BY <1>0, <1>1, <3>1
    <3>3. dm'["n_dif"].live = IntegrityTable("old")
      BY <1>1, <2>1, <3>1
    <3>4. IntegrityTable("old") # ErrorTable /\ IntegrityTable("old").ver = "old"
      BY DEF IntegrityTable, ErrorTable
    <3>5. QED
      BY <3>2, <3>3, <3>4 DEF Fits
  <2>2. QED
    BY <2>1
<1>13. locked' \in BOOLEAN /\ (used => "n" \in DOMAIN dm')
  BY <1>1, Parts
<1>14. QED
  BY <1>1, <1>2, <1>3, <1>5, <1>6, <1>7, <1>9, <1>10, <1>11, <1>12, <1>13, ChangesGo

(* The making of a stack fails where nothing was made.                     *)
LEMMA FirstFails ==
    ASSUME ActivationInv, NEW p \in Proc, Go(p, "failed"), job[p].at = "create 1", dm' = dm,
           UNCHANGED <<kind, via, used, deaths, ring, inring, last, locked>>
    PROVE  ActivationInv'
<1>1. JobOK(job[p], kind, via) /\ job[p].at # "idle" /\ job[p].op \in {"activate", "refresh"}
  BY Here, CallAt
<1>2. /\ "failed" \in PlacesOf(job[p].op) /\ kind \in KindsAt("failed") /\ Light("create 1")
      /\ Free("failed")
  BY <1>1, AnyKind, LightAre, FreeAre DEF PlacesOf, Entering
<1>3. RingPart(job', via, ring', inring', last')
  BY <1>1, RingGoes
<1>4. QED
  BY <1>1, <1>2, <1>3, LightGoes

(* Who gives up half a stack has met what is not undone, or undoes it.     *)
LEMMA OwnerStops ==
    ASSUME ActivationInv, NEW p \in Proc, NEW a \in {"failed", "removed", "rollback"}, Go(p, a), job[p].at \in Owning,
           a \in PlacesOf(job[p].op), a = "rollback" => kind = "integrity", dm' = dm,
           UNCHANGED <<kind, via, used, deaths, ring, inring, last, locked>>,
           a # "rollback" => ~Calmer
    PROVE  ActivationInv'
<1>1. JobOK(job[p], kind, via) /\ job[p].at # "idle" /\ OwnerOK(job[p].at, dm, kind)
  BY Here DEF Owning
<1>2. kind \in KindsAt(a) /\ a # "idle" /\ a \notin Working /\ a # "query"
  BY AnyKind DEF KindsAt, Working, Staging
<1>3. ReloadOK(a, dm, kind)
  BY <1>2 DEF ReloadOK, Working, Staging
<1>4. OwnerOK(a, dm, kind)
  BY <1>1 DEF OwnerOK, Owning, Partial
<1>5. RingPart(job', via, ring', inring', last')
  BY <1>1, <1>2, RingGoes
<1>6. (\A x : job[p].at \notin LoadedAt(x) /\ job[p].at \notin SuspendedAt(x)) /\ job[p].at \notin {"resume n", "fatal"}
  BY DEF Owning, LoadedAt, SuspendedAt
<1>7. Calmer => a \in Owning
  BY DEF Owning
<1>8. QED
  BY <1>1, <1>2, <1>3, <1>4, <1>5, <1>6, <1>7, Goes

(* One step of the making of a stack.                                      *)
Makes(p, at, x, next, fail) ==
    /\ job[p].at = at /\ UNCHANGED <<kind, via, used, deaths, ring, inring, last, locked>>
    /\ \/ x \notin DOMAIN dm /\ dm' = Created(dm, x, NewTable(p, x)) /\ Go(p, next)
       \/ /\ dm' = dm /\ Go(p, fail)
          /\ x \in DOMAIN dm \/ ~(Over(x) \ {"data"} \subseteq DOMAIN dm) \/ <<kind, "create">> \in FaultsAt

(* CreateDevice, for each kind of volume and each device of its stack.     *)
LEMMA MakesIs ==
    ASSUME NEW p, CreateDevice(p)
    PROVE  /\ kind = "crypt" => Makes(p, "create 1", "n", "done", "failed")
           /\ kind = "integrity" => \/ Makes(p, "create 1", "n_dif", "create 2", "failed")
                                    \/ Makes(p, "create 2", "n", "done", "rollback")
           /\ kind = "tcrypt" => \/ Makes(p, "create 1", "n_2", "create 2", "failed")
                                 \/ Makes(p, "create 2", "n_1", "create 3", "failed")
                                 \/ Makes(p, "create 3", "n", "done", "failed")
<1>1. PICK i \in DOMAIN Stack : CreateAs(p, i, Stack[i])
  BY DEF CreateDevice
<1>2. /\ job[p].at = <<"create 1", "create 2", "create 3">>[i]
      /\ UNCHANGED <<kind, via, used, deaths, ring, inring, last, locked>>
      /\ \/ /\ Stack[i] \notin DOMAIN dm /\ dm' = Created(dm, Stack[i], NewTable(p, Stack[i]))
            /\ Go(p, IF i = Len(Stack) THEN "done" ELSE <<"create 2", "create 3">>[i])
         \/ /\ dm' = dm /\ Go(p, IF kind = "integrity" /\ i = 2 THEN "rollback" ELSE "failed")
            /\ \/ Stack[i] \in DOMAIN dm \/ ~(Over(Stack[i]) \ {"data"} \subseteq DOMAIN dm)
               \/ <<kind, "create">> \in FaultsAt
  BY <1>1 DEF CreateAs, DmCall, At, Rest, KeepKeyring, Fault, Exists
<1>3. CASE kind = "crypt"
  <2>1. Stack = <<"n">>
    BY <1>3, StackIs
  <2>2. i = 1 /\ Len(Stack) = 1 /\ Stack[i] = "n"
    BY <2>1
  <2>3. <<"create 1", "create 2", "create 3">>[i] = "create 1"
    BY <2>2
  <2>4. Makes(p, "create 1", "n", "done", "failed")
    BY <1>2, <1>3, <2>2, <2>3 DEF Makes
  <2>5. QED
    BY <1>3, <2>4
<1>4. CASE kind = "integrity"
  <2>1. Stack = <<"n_dif", "n">>
    BY <1>4, StackIs
  <2>2. i \in {1, 2} /\ Len(Stack) = 2 /\ Stack[1] = "n_dif" /\ Stack[2] = "n"
    BY <2>1
  <2>3. CASE i = 1
    <3>1. /\ <<"create 1", "create 2", "create 3">>[i] = "create 1"
          /\ <<"create 2", "create 3">>[i] = "create 2"
      BY <2>3
    <3>2. Makes(p, "create 1", "n_dif", "create 2", "failed")
      BY <1>2, <2>2, <2>3, <3>1 DEF Makes
    <3>3. QED
      BY <1>4, <3>2
  <2>4. CASE i = 2
    <3>1. <<"create 1", "create 2", "create 3">>[i] = "create 2"
      BY <2>4
    <3>2. Makes(p, "create 2", "n", "done", "rollback")
      BY <1>2, <1>4, <2>2, <2>4, <3>1 DEF Makes
    <3>3. QED
      BY <1>4, <3>2
  <2>5. QED
    BY <2>2, <2>3, <2>4
<1>5. CASE kind = "tcrypt"
  <2>1. Stack = <<"n_2", "n_1", "n">>
    BY <1>5, StackIs
  <2>2. i \in {1, 2, 3} /\ Len(Stack) = 3 /\ Stack[1] = "n_2" /\ Stack[2] = "n_1" /\ Stack[3] = "n"
    BY <2>1
  <2>3. CASE i = 1
    <3>1. /\ <<"create 1", "create 2", "create 3">>[i] = "create 1"
          /\ <<"create 2", "create 3">>[i] = "create 2"
      BY <2>3
    <3>2. Makes(p, "create 1", "n_2", "create 2", "failed")
      BY <1>2, <1>5, <2>2, <2>3, <3>1 DEF Makes
    <3>3. QED
      BY <1>5, <3>2
  <2>4. CASE i = 2
    <3>1. /\ <<"create 1", "create 2", "create 3">>[i] = "create 2"
          /\ <<"create 2", "create 3">>[i] = "create 3"
      BY <2>4
    <3>2. Makes(p, "create 2", "n_1", "create 3", "failed")
      BY <1>2, <1>5, <2>2, <2>4, <3>1 DEF Makes
    <3>3. QED
      BY <1>5, <3>2
  <2>5. CASE i = 3
    <3>1. <<"create 1", "create 2", "create 3">>[i] = "create 3"
      BY <2>5
    <3>2. Makes(p, "create 3", "n", "done", "failed")
      BY <1>2, <1>5, <2>2, <2>5, <3>1 DEF Makes
    <3>3. QED
      BY <1>5, <3>2
  <2>6. QED
    BY <2>2, <2>3, <2>4, <2>5
<1>6. QED
  BY <1>3, <1>4, <1>5

(* The first device is made where there is none, or nothing is.            *)
LEMMA MakesFirst ==
    ASSUME ActivationInv, NEW p \in Proc, NEW x \in Names(kind), NEW a, Makes(p, "create 1", x, a, "failed"),
           x \notin DOMAIN dm => DOMAIN dm = {},
           {x} \in Prefixes(kind), x = "n" => kind # "integrity",
           (a = "done" /\ {x} = Names(kind)) \/ (a = "create 2" /\ kind \in KindsAt(a) /\ {x} = Partial(a, kind))
    PROVE  ActivationInv'
<1>1. CASE x \notin DOMAIN dm /\ dm' = Created(dm, x, NewTable(p, x)) /\ Go(p, a)
  <2>1. DOMAIN dm = {} /\ DOMAIN dm \cup {x} = {x}
    BY <1>1
  <2>2. \A q \in Proc \ {p} : Free(job[q].at)
    BY <2>1, OthersOfNothing
  <2>3. /\ job[p].at \in {"create 1", "create 2", "create 3"}
        /\ UNCHANGED <<kind, via, used, deaths, ring, inring, last, locked>>
    BY DEF Makes
  <2>4. QED
    BY <1>1, <2>1, <2>2, <2>3, CreateOne
<1>2. CASE dm' = dm /\ Go(p, "failed")
  BY <1>2, FirstFails DEF Makes
<1>3. QED
  BY <1>1, <1>2 DEF Makes

(* A stack grows from its bottom; its top is the last.                     *)
LEMMA CreateStep ==
    ASSUME ActivationInv, NEW p \in Proc, CreateDevice(p)
    PROVE  ActivationInv'
<1>1. kind \in {"crypt", "integrity", "tcrypt"} /\ DOMAIN dm \in Prefixes(kind)
  BY Parts
<1>2. CASE kind = "crypt"
  <2>1. Makes(p, "create 1", "n", "done", "failed")
    BY <1>2, MakesIs
  <2>2. /\ "n" \in Names(kind) /\ {"n"} \in Prefixes(kind) /\ {"n"} = Names(kind)
        /\ ("n" \notin DOMAIN dm => DOMAIN dm = {})
    BY <1>1, <1>2 DEF Names, Prefixes
  <2>3. QED
    BY <1>2, <2>1, <2>2, MakesFirst
<1>3. CASE kind = "integrity"
  <2>1. CASE Makes(p, "create 1", "n_dif", "create 2", "failed")
    <3>1. /\ "n_dif" \in Names(kind) /\ {"n_dif"} \in Prefixes(kind)
          /\ {"n_dif"} = Partial("create 2", kind)
          /\ "n_dif" \notin DOMAIN dm => DOMAIN dm = {}
      BY <1>1, <1>3 DEF Names, Prefixes, Partial
    <3>2. kind \in KindsAt("create 2")
      BY <1>3 DEF KindsAt, Staging
    <3>3. QED
      BY <2>1, <3>1, <3>2, MakesFirst
  <2>2. CASE Makes(p, "create 2", "n", "done", "rollback")
    <3>1. /\ job[p].at = "create 2" /\ UNCHANGED <<kind, via, used, deaths, ring, inring, last, locked>>
          /\ \/ "n" \notin DOMAIN dm /\ dm' = Created(dm, "n", NewTable(p, "n")) /\ Go(p, "done")
             \/ dm' = dm /\ Go(p, "rollback")
      BY <2>2 DEF Makes
    <3>2. "create 2" \in Owning /\ Partial("create 2", kind) = {"n_dif"}
      BY <1>3 DEF Owning, Partial
    <3>3. JobOK(job[p], kind, via) /\ OwnerOK(job[p].at, dm, kind)
      BY <3>1, Here
    <3>4. DOMAIN dm = {"n_dif"} /\ dm["n_dif"].live = IntegrityTable("old")
      BY <1>3, <3>1, <3>2, <3>3 DEF OwnerOK
    <3>5. CASE "n" \notin DOMAIN dm /\ dm' = Created(dm, "n", NewTable(p, "n")) /\ Go(p, "done")
      <4>1. /\ "n" \in Names(kind) /\ DOMAIN dm \cup {"n"} = Names(kind)
            /\ DOMAIN dm \cup {"n"} \in Prefixes(kind)
        BY <1>3, <3>4 DEF Names, Prefixes
      <4>2. \A q \in Proc \ {p} : Free(job[q].at)
        BY <3>1, <3>2, OthersOfOwner
      <4>3. QED
        BY <3>1, <3>4, <3>5, <4>1, <4>2, CreateOne
    <3>6. CASE dm' = dm /\ Go(p, "rollback")
      <4>1. "rollback" \in PlacesOf(job[p].op)
        BY <3>1, <3>3, CallAt DEF PlacesOf, Entering
      <4>2. QED
        BY <1>3, <3>1, <3>2, <3>6, <4>1, OwnerStops
    <3>7. QED
      BY <3>1, <3>5, <3>6
  <2>3. QED
    BY <1>3, <2>1, <2>2, MakesIs
<1>4. CASE kind = "tcrypt"
  <2>1. CASE Makes(p, "create 1", "n_2", "create 2", "failed")
    <3>1. /\ "n_2" \in Names(kind) /\ {"n_2"} \in Prefixes(kind) /\ {"n_2"} = Partial("create 2", kind)
          /\ "n_2" \notin DOMAIN dm => DOMAIN dm = {}
      BY <1>1, <1>4 DEF Names, Prefixes, Partial
    <3>2. kind \in KindsAt("create 2")
      BY <1>4 DEF KindsAt, Staging
    <3>3. QED
      BY <2>1, <3>1, <3>2, MakesFirst
  <2>2. ASSUME NEW at, NEW x, NEW a, Makes(p, at, x, a, "failed"),
               \/ at = "create 2" /\ x = "n_1" /\ a = "create 3"
               \/ at = "create 3" /\ x = "n" /\ a = "done"
        PROVE  ActivationInv'
    <3>1. /\ job[p].at = at /\ UNCHANGED <<kind, via, used, deaths, ring, inring, last, locked>>
          /\ \/ x \notin DOMAIN dm /\ dm' = Created(dm, x, NewTable(p, x)) /\ Go(p, a)
             \/ /\ dm' = dm /\ Go(p, "failed")
                /\ x \in DOMAIN dm \/ ~(Over(x) \ {"data"} \subseteq DOMAIN dm) \/ <<kind, "create">> \in FaultsAt
      BY <2>2 DEF Makes
    <3>2. at \in Owning /\ at # "idle"
      BY <2>2 DEF Owning
    <3>3. JobOK(job[p], kind, via) /\ OwnerOK(job[p].at, dm, kind)
      BY <3>1, <3>2, Here
    <3>4. DOMAIN dm = Partial(at, kind)
      BY <3>1, <3>2, <3>3 DEF OwnerOK
    <3>5. (x = "n_1" => DOMAIN dm = {"n_2"}) /\ (x = "n" => DOMAIN dm = {"n_2", "n_1"})
      BY <1>4, <2>2, <3>4 DEF Partial
    <3>6. CASE x \notin DOMAIN dm /\ dm' = Created(dm, x, NewTable(p, x)) /\ Go(p, a)
      <4>1. x \in Names(kind) /\ DOMAIN dm \cup {x} \in Prefixes(kind)
        BY <1>4, <2>2, <3>5 DEF Names, Prefixes
      <4>2. \/ a = "done" /\ DOMAIN dm \cup {x} = Names(kind)
            \/ a \in {"create 2", "create 3"} /\ kind \in KindsAt(a) /\ DOMAIN dm \cup {x} = Partial(a, kind)
        BY <1>4, <2>2, <3>5 DEF Names, Partial, KindsAt, Staging
      <4>3. \A q \in Proc \ {p} : Free(job[q].at)
        BY <3>1, <3>2, OthersOfOwner
      <4>4. job[p].at \in {"create 1", "create 2", "create 3"} /\ ~(x = "n" /\ kind = "integrity")
        BY <1>4, <2>2, <3>1
      <4>5. QED
        BY <3>1, <3>6, <4>1, <4>2, <4>3, <4>4, CreateOne
    <3>7. CASE dm' = dm /\ Go(p, "failed")
                /\ (x \in DOMAIN dm \/ ~(Over(x) \ {"data"} \subseteq DOMAIN dm) \/ <<kind, "create">> \in FaultsAt)
      <4>1. Over("n_1") = {"n_2"} /\ Over("n") = {"n_1"}
        BY <1>4, StackIs
      <4>2. <<kind, "create">> \in FaultsAt
        BY <2>2, <3>5, <3>7, <4>1
      <4>3. ~Calmer
        BY <1>4, <4>2 DEF Calmer, NotUndone
      <4>4. "failed" \in PlacesOf(job[p].op)
        BY <2>2, <3>1, <3>3, CallAt DEF PlacesOf, Entering
      <4>5. QED
        BY <3>1, <3>2, <3>7, <4>3, <4>4, OwnerStops
    <3>8. QED
      BY <3>1, <3>6, <3>7
  <2>3. QED
    BY <1>4, <2>1, <2>2, MakesIs
<1>5. QED
  BY <1>1, <1>2, <1>3, <1>4

-----------------------------------------------------------------------------
(* A stack is removed                                                      *)

(* A device is over what it should be over.                                *)
LEMMA OverIs ==
    ASSUME ActivationInv, NEW x \in DOMAIN dm
    PROVE  dm[x].live.over \cup dm[x].load.over \subseteq Under(kind, x)
<1>1. DevOK(dm[x], x, kind, via) /\ kind \in {"crypt", "integrity", "tcrypt"}
  BY Parts
<1>2. ErrorTable.over = {} /\ NoTable.over = {} /\ \A t \in IntegrityTables : t.over = {"data"}
  BY DEF ErrorTable, NoTable, IntegrityTables
<1>3. x = "n_dif" => Under(kind, x) = {"data"}
  BY DEF Under
<1>4. dm[x].live.over \subseteq Under(kind, x)
  BY <1>1, <1>2, <1>3 DEF DevOK, LiveOK
<1>5. dm[x].load.over \subseteq Under(kind, x)
  BY <1>1, <1>2, <1>3 DEF DevOK, LoadOK
<1>6. QED
  BY <1>4, <1>5

(* A device that no other one is over can be removed.                      *)
LEMMA NotInUse ==
    ASSUME ActivationInv, NEW x \in DOMAIN dm, x # "n", \A y \in DOMAIN dm : x \notin Under(kind, y)
    PROVE  ~InUse(x)
  BY OverIs DEF InUse, Holders

(* The lowest devices go while nobody else is in the way.                  *)
LEMMA RemoveOne ==
    ASSUME ActivationInv, NEW p \in Proc, NEW x \in DOMAIN dm, x # "n", NEW a, Go(p, a), dm' = Removed(dm, x),
           UNCHANGED <<kind, via, used, deaths, ring, inring, last, locked>>, job[p].at \in Owning,
           a \in PlacesOf(job[p].op),
           \/ a \in {"failed", "removed"} /\ DOMAIN dm \ {x} = {}
           \/ a = "remove 3" /\ kind = "tcrypt" /\ DOMAIN dm \ {x} = Partial(a, kind)
    PROVE  ActivationInv'
<1>1. job[p].at # "idle" /\ OwnerOK(job[p].at, dm, kind) /\ JobOK(job[p], kind, via)
  BY Here DEF Owning
<1>2. kind \in {"crypt", "integrity", "tcrypt"} /\ DmOK(dm, kind, via) /\ DOMAIN dm \in Prefixes(kind)
      /\ (used => "n" \in DOMAIN dm) /\ locked \in BOOLEAN
  BY Parts
<1>3. "n" \notin DOMAIN dm
  BY <1>1, <1>2, WholeStack DEF OwnerOK, JobOK
<1>4. DOMAIN dm \ {x} \in Prefixes(kind)
  BY DEF Prefixes, Partial
<1>5. DmOK(dm', kind, via) /\ Left(dm', dm, x)
  BY <1>2, <1>4, RemovedIs
<1>6. DOMAIN dm' = DOMAIN dm \ {x} /\ \A y \in DOMAIN dm' : dm'[y] = dm[y]
  BY <1>5 DEF Left, Same
<1>7. kind \in KindsAt(a) /\ a # "idle" /\ a \notin Working /\ a # "query"
  BY AnyKind DEF KindsAt, Working, Staging
<1>8. ReloadOK(a, dm', kind)
  BY <1>7 DEF ReloadOK, Working, Staging
<1>9. OwnerOK(a, dm', kind)
  BY <1>6 DEF OwnerOK, Owning
<1>10. RingPart(job', via, ring', inring', last')
  BY <1>1, <1>7, RingGoes
<1>11. \A q \in Proc \ {p} : Free(job[q].at)
  BY OthersOfOwner
<1>12. \A y : job[p].at \notin LoadedAt(y) /\ job[p].at \notin SuspendedAt(y)
  BY DEF Owning, LoadedAt, SuspendedAt
<1>13. ASSUME Calm
       PROVE  (\A y \in DOMAIN dm' : dm'[y].load # NoTable => a \in LoadedAt(y)) /\ LockPart(dm', locked')
  <2>1. \A y \in DOMAIN dm : dm[y].load = NoTable
    BY <1>11, <1>12, <1>13, AloneIs
  <2>2. ~locked
    BY <1>3, <1>13, Parts DEF LockPart
  <2>3. QED
    BY <1>3, <1>6, <2>1, <2>2 DEF LockPart
<1>14. ASSUME Calmer, NEW y \in DOMAIN dm', dm'[y].susp PROVE FALSE
  <2>1. y \in DOMAIN dm /\ dm[y].susp /\ y # "n"
    BY <1>3, <1>6, <1>14
  <2>2. QED
    BY <1>11, <1>12, <1>14, <2>1, AloneIs
<1>15. (DOMAIN dm' \in {{}, Names(kind)} \/ a \in Owning) /\ DOMAIN dm' # Names(kind)
  BY <1>3, <1>6 DEF Owning, Names
<1>16. locked' \in BOOLEAN /\ (used => "n" \in DOMAIN dm')
  BY <1>2, <1>3, <1>7
<1>17. QED
  BY <1>1, <1>5, <1>7, <1>8, <1>9, <1>10, <1>11, <1>13, <1>14, <1>15, <1>16, ChangesGo

(* _create_device_with_integrity takes the integrity device back.          *)
LEMMA RollbackStep ==
    ASSUME ActivationInv, NEW p \in Proc, Rollback(p)
    PROVE  ActivationInv'
<1>1. /\ job[p].at = "rollback" /\ UNCHANGED <<kind, via, used, deaths, ring, inring, last, locked>>
      /\ \/ dm' = Removed(dm, "n_dif") /\ Go(p, "failed")
         \/ /\ dm' = dm /\ Go(p, "failed")
            /\ "n_dif" \notin DOMAIN dm \/ InUse("n_dif") \/ <<kind, "remove">> \in FaultsAt
  BY DEF Rollback, DmCall, At, Rest, KeepKeyring, Fault, Exists
<1>2. "rollback" \in Owning
  BY DEF Owning
<1>3. JobOK(job[p], kind, via) /\ OwnerOK(job[p].at, dm, kind)
  BY <1>1, Here
<1>4. kind = "integrity"
  BY <1>1, <1>3 DEF JobOK, KindsAt
<1>5. DOMAIN dm = {"n_dif"}
  BY <1>1, <1>2, <1>3, <1>4 DEF OwnerOK, Partial
<1>6. "failed" \in PlacesOf(job[p].op)
  BY <1>1, <1>3, CallAt DEF PlacesOf, Entering
<1>7. CASE dm' = Removed(dm, "n_dif") /\ Go(p, "failed")
  <2>1. "n_dif" \in DOMAIN dm /\ DOMAIN dm \ {"n_dif"} = {}
    BY <1>5
  <2>2. QED
    BY <1>1, <1>2, <1>6, <1>7, <2>1, RemoveOne
<1>8. CASE dm' = dm /\ Go(p, "failed") /\ ("n_dif" \notin DOMAIN dm \/ InUse("n_dif") \/ <<kind, "remove">> \in FaultsAt)
  <2>1. ~InUse("n_dif")
    BY <1>4, <1>5, NotInUse DEF Under
  <2>2. <<kind, "remove">> \in FaultsAt
    BY <1>5, <1>8, <2>1
  <2>3. ~Calmer
    BY <1>4, <2>2 DEF Calmer, NotUndone
  <2>4. QED
    BY <1>1, <1>2, <1>6, <1>8, <2>3, OwnerStops
<1>9. QED
  BY <1>1, <1>7, <1>8

(* One step of the removal of what is below.                               *)
Unmakes(p, at, x, next) ==
    /\ job[p].at = at /\ UNCHANGED <<kind, via, used, deaths, ring, inring, last, locked>>
    /\ \/ dm' = Removed(dm, x) /\ Go(p, next)
       \/ /\ dm' = dm /\ Go(p, "removed")
          /\ x \notin DOMAIN dm \/ InUse(x) \/ <<kind, "remove">> \in FaultsAt

(* RemoveBelow, for each kind of volume and each device below.             *)
LEMMA UnmakesIs ==
    ASSUME NEW p, RemoveBelow(p), kind \in {"crypt", "integrity", "tcrypt"}
    PROVE  \/ kind = "integrity" /\ Unmakes(p, "remove 2", "n_dif", "removed")
           \/ kind = "tcrypt" /\ Unmakes(p, "remove 2", "n_1", "remove 3")
           \/ kind = "tcrypt" /\ Unmakes(p, "remove 3", "n_2", "removed")
<1>1. PICK i \in DOMAIN Stack \ {Len(Stack)} :
         DmCall(p, IF i = Len(Stack) - 1 THEN "remove 2" ELSE "remove 3", "remove",
                Exists(dm, Stack[i]) /\ ~InUse(Stack[i]), Removed(dm, Stack[i]),
                IF i = 1 THEN "removed" ELSE "remove 3", "removed")
  BY DEF RemoveBelow
<1>0. i \in DOMAIN Stack \ {Len(Stack)}
  OBVIOUS
<1>2. Unmakes(p, IF i = Len(Stack) - 1 THEN "remove 2" ELSE "remove 3", Stack[i], IF i = 1 THEN "removed" ELSE "remove 3")
  BY <1>1 DEF DmCall, At, Rest, KeepKeyring, Fault, Exists, Unmakes
<1>3. CASE kind = "crypt"
  <2>1. Stack = <<"n">>
    BY <1>3, StackIs
  <2>2. FALSE
    BY <1>0, <2>1
  <2>3. QED
    BY <2>2
<1>4. CASE kind = "integrity"
  <2>1. Stack = <<"n_dif", "n">>
    BY <1>4, StackIs
  <2>2. i = 1 /\ Len(Stack) - 1 = 1 /\ Stack[1] = "n_dif"
    BY <1>0, <2>1
  <2>3. Unmakes(p, "remove 2", "n_dif", "removed")
    BY <1>2, <2>2
  <2>4. QED
    BY <1>4, <2>3
<1>5. CASE kind = "tcrypt"
  <2>1. Stack = <<"n_2", "n_1", "n">>
    BY <1>5, StackIs
  <2>2. i \in {1, 2} /\ Len(Stack) - 1 = 2 /\ Stack[1] = "n_2" /\ Stack[2] = "n_1"
    BY <1>0, <2>1
  <2>3. CASE i = 1
    BY <1>2, <1>5, <2>2, <2>3
  <2>4. CASE i = 2
    BY <1>2, <1>5, <2>2, <2>4
  <2>5. QED
    BY <2>2, <2>3, <2>4
<1>6. QED
  BY <1>3, <1>4, <1>5

(* One device below is removed, or the call stops there.                   *)
LEMMA UnmakesStep ==
    ASSUME ActivationInv, NEW p \in Proc, NEW at \in {"remove 2", "remove 3"}, NEW x, NEW a, Unmakes(p, at, x, a),
           kind \in {"integrity", "tcrypt"}, x \in Partial(at, kind), x # "n",
           \A y \in Partial(at, kind) : x \notin Under(kind, y),
           \/ a = "removed" /\ Partial(at, kind) \ {x} = {}
           \/ a = "remove 3" /\ kind = "tcrypt" /\ Partial(at, kind) \ {x} = Partial(a, kind)
    PROVE  ActivationInv'
<1>1. /\ job[p].at = at /\ UNCHANGED <<kind, via, used, deaths, ring, inring, last, locked>>
      /\ \/ dm' = Removed(dm, x) /\ Go(p, a)
         \/ dm' = dm /\ Go(p, "removed") /\ (x \notin DOMAIN dm \/ InUse(x) \/ <<kind, "remove">> \in FaultsAt)
  BY DEF Unmakes
<1>2. at \in Owning /\ at # "idle"
  BY DEF Owning
<1>3. JobOK(job[p], kind, via) /\ OwnerOK(job[p].at, dm, kind)
  BY <1>1, <1>2, Here
<1>4. DOMAIN dm = Partial(at, kind)
  BY <1>1, <1>2, <1>3 DEF OwnerOK
<1>5. job[p].op = "close" /\ "removed" \in PlacesOf(job[p].op) /\ "remove 3" \in PlacesOf(job[p].op)
  BY <1>1, <1>3, CallAt DEF PlacesOf
<1>6. CASE dm' = Removed(dm, x) /\ Go(p, a)
  BY <1>1, <1>2, <1>4, <1>5, <1>6, RemoveOne
<1>7. CASE dm' = dm /\ Go(p, "removed") /\ (x \notin DOMAIN dm \/ InUse(x) \/ <<kind, "remove">> \in FaultsAt)
  <2>1. ~InUse(x)
    BY <1>4, NotInUse
  <2>2. <<kind, "remove">> \in FaultsAt
    BY <1>4, <1>7, <2>1
  <2>3. ~Calmer
    BY <2>2 DEF Calmer, NotUndone
  <2>4. QED
    BY <1>1, <1>2, <1>5, <1>7, <2>3, OwnerStops
<1>8. QED
  BY <1>1, <1>6, <1>7

(* The devices below the top go from top to bottom.                        *)
LEMMA RemoveBelowStep ==
    ASSUME ActivationInv, NEW p \in Proc, RemoveBelow(p)
    PROVE  ActivationInv'
<1>1. kind \in {"crypt", "integrity", "tcrypt"}
  BY Parts
<1>2. CASE kind = "integrity" /\ Unmakes(p, "remove 2", "n_dif", "removed")
  <2>1. Partial("remove 2", kind) = {"n_dif"} /\ "n_dif" \notin Under(kind, "n_dif")
    BY <1>2 DEF Partial, Under
  <2>2. /\ Partial("remove 2", kind) \ {"n_dif"} = {} /\ "n_dif" \in Partial("remove 2", kind)
        /\ \A y \in Partial("remove 2", kind) : "n_dif" \notin Under(kind, y)
    BY <2>1
  <2>3. QED
    BY <1>2, <2>2, UnmakesStep
<1>3. CASE kind = "tcrypt" /\ Unmakes(p, "remove 2", "n_1", "remove 3")
  <2>1. /\ Partial("remove 2", kind) = {"n_2", "n_1"} /\ Partial("remove 3", kind) = {"n_2"}
        /\ "n_1" \notin Under(kind, "n_1") /\ "n_1" \notin Under(kind, "n_2")
    BY <1>3 DEF Partial, Under
  <2>2. /\ Partial("remove 2", kind) \ {"n_1"} = Partial("remove 3", kind) /\ "n_1" \in Partial("remove 2", kind)
        /\ \A y \in Partial("remove 2", kind) : "n_1" \notin Under(kind, y)
    BY <2>1
  <2>3. QED
    BY <1>3, <2>2, UnmakesStep
<1>4. CASE kind = "tcrypt" /\ Unmakes(p, "remove 3", "n_2", "removed")
  <2>1. Partial("remove 3", kind) = {"n_2"} /\ "n_2" \notin Under(kind, "n_2")
    BY <1>4 DEF Partial, Under
  <2>2. /\ Partial("remove 3", kind) \ {"n_2"} = {} /\ "n_2" \in Partial("remove 3", kind)
        /\ \A y \in Partial("remove 3", kind) : "n_2" \notin Under(kind, y)
    BY <2>1
  <2>3. QED
    BY <1>4, <2>2, UnmakesStep
<1>5. QED
  BY <1>1, <1>2, <1>3, <1>4, UnmakesIs

(* The key that a call drops on its way.                                   *)
LEMMA RingDrops ==
    ASSUME ActivationInv, NEW p \in Proc, job[p].at # "idle", NEW a, a # "idle", Go(p, a), last' = last,
           DropKeyring(p) \/ KeepKeyring
    PROVE  RingPart(job', via, ring', inring', last')
<1>1. job' = [job EXCEPT ![p] = To(p, a)] /\ To(p, a).at = a
  BY GoIs, ToIs
<1>2. job'[p] # Idle /\ \A q \in Proc : q # p => job'[q] = job[q]
  BY <1>1 DEF ActivationInv, Idle
<1>3. CASE KeepKeyring \/ ~via
  BY <1>2, <1>3 DEF KeepKeyring, DropKeyring, ActivationInv, RingPart
<1>4. CASE DropKeyring(p) /\ via
  <2>1. ring' = [ring EXCEPT ![p] = "none"] /\ inring' = [inring EXCEPT ![p] = FALSE]
    BY <1>4 DEF DropKeyring
  <2>2. QED
    BY <1>2, <2>1, RingSet
<1>5. QED
  BY <1>3, <1>4

(* The top goes first, and with it the lock and the key.                   *)
LEMMA RemoveTopStep ==
    ASSUME ActivationInv, NEW p \in Proc, RemoveTop(p)
    PROVE  ActivationInv'
<1> DEFINE a == IF kind = "crypt" THEN "removed" ELSE "remove 2"
<1>1. /\ job[p].at = "remove n" /\ UNCHANGED <<kind, via, used, deaths>>
      /\ \/ /\ "n" \in DOMAIN dm /\ ~InUse("n") /\ dm' = Removed(dm, "n") /\ locked' = FALSE /\ last' = last
            /\ (DropKeyring(p) \/ KeepKeyring) /\ Go(p, a)
         \/ UNCHANGED <<dm, locked>> /\ End(p, "refused") /\ KeepKeyring
  BY DEF RemoveTop, At, Rest, Exists
<1>2. JobOK(job[p], kind, via)
  BY <1>1, Here
<1>3. job[p].op = "close"
  BY <1>1, <1>2, CallAt
<1>4. kind \in {"crypt", "integrity", "tcrypt"} /\ DmOK(dm, kind, via) /\ DOMAIN dm \in Prefixes(kind)
  BY Parts
<1>5. CASE UNCHANGED <<dm, locked>> /\ End(p, "refused") /\ KeepKeyring
  <2>1. Light("remove n")
    BY LightAre
  <2>2. RingPart(job', via, ring', inring', last')
    BY <1>1, <1>5, RingEnds
  <2>3. QED
    BY <1>1, <1>5, <2>1, <2>2, LightEnds
<1>6. CASE /\ "n" \in DOMAIN dm /\ ~InUse("n") /\ dm' = Removed(dm, "n") /\ locked' = FALSE /\ last' = last
           /\ (DropKeyring(p) \/ KeepKeyring) /\ Go(p, a)
  <2>1. DOMAIN dm = Names(kind)
    BY <1>4, <1>6, WholeStack
  <2>2. DOMAIN dm \ {"n"} = (IF kind = "crypt" THEN {} ELSE Partial("remove 2", kind))
    BY <1>4, <2>1 DEF Names, Partial
  <2>3. DOMAIN dm \ {"n"} \in Prefixes(kind)
    BY <1>4, <2>2 DEF Prefixes, Partial
  <2>4. DmOK(dm', kind, via) /\ Left(dm', dm, "n")
    BY <1>4, <1>6, <2>3, RemovedIs
  <2>5. DOMAIN dm' = DOMAIN dm \ {"n"} /\ \A y \in DOMAIN dm' : dm'[y] = dm[y]
    BY <2>4 DEF Left, Same
  <2>6. /\ a \in PlacesOf(job[p].op) /\ kind \in KindsAt(a) /\ a \notin Working /\ a # "query"
        /\ a # "idle"
        /\ a \in {"removed", "remove 2"}
    BY <1>3, <1>4 DEF PlacesOf, KindsAt, Working, Staging
  <2>7. a = "remove 2" => kind # "crypt"
    OBVIOUS
  <2>8. (kind = "crypt" => a = "removed") /\ (kind # "crypt" => a = "remove 2")
    OBVIOUS
  <2> HIDE DEF a
  <2>9. ReloadOK(a, dm', kind)
    BY <2>6 DEF ReloadOK, Working, Staging
  <2>10. OwnerOK(a, dm', kind)
    BY <2>2, <2>5, <2>6, <2>7 DEF OwnerOK, Owning
  <2>11. RingPart(job', via, ring', inring', last')
    BY <1>1, <1>6, <2>6, RingDrops
  <2>12. \A q \in Proc \ {p} : Free(job[q].at)
    BY <1>1, <1>3, <1>6, OthersOfUser
  <2>13. \A y : job[p].at \notin LoadedAt(y) /\ job[p].at \notin SuspendedAt(y)
    BY <1>1 DEF LoadedAt, SuspendedAt
  <2>14. ASSUME Calm
         PROVE  (\A y \in DOMAIN dm' : dm'[y].load # NoTable => a \in LoadedAt(y)) /\ LockPart(dm', locked')
    <3>1. \A y \in DOMAIN dm : dm[y].load = NoTable
      BY <2>12, <2>13, <2>14, AloneIs
    <3>2. QED
      BY <1>6, <2>5, <3>1 DEF LockPart
  <2>15. ASSUME Calmer, NEW y \in DOMAIN dm', dm'[y].susp PROVE FALSE
    <3>1. y \in DOMAIN dm /\ dm[y].susp /\ y # "n"
      BY <2>5, <2>15
    <3>2. QED
      BY <2>12, <2>13, <2>15, <3>1, AloneIs
  <2>16. (DOMAIN dm' \in {{}, Names(kind)} \/ a \in Owning) /\ DOMAIN dm' # Names(kind)
    BY <1>6, <2>1, <2>2, <2>5, <2>8 DEF Owning
  <2>17. ~used /\ locked' \in BOOLEAN
    BY <1>6, <2>6 DEF InUse
  <2>18. QED
    BY <1>1, <1>6, <2>4, <2>6, <2>9, <2>10, <2>11, <2>12, <2>14, <2>15, <2>16, <2>17, ChangesGo
<1>7. QED
  BY <1>1, <1>5, <1>6

-----------------------------------------------------------------------------
(* A volume is reloaded                                                    *)

(* What holds where tables are loaded and swapped.                         *)
LEMMA ReloadFacts ==
    ASSUME ActivationInv, NEW p \in Proc, job[p].at \in Working
    PROVE  /\ job[p].at # "idle" /\ JobOK(job[p], kind, via) /\ job[p].key \in {"vk", "twin"} /\ ReloadOK(job[p].at, dm, kind)
           /\ \A q \in Proc \ {p} : Free(job[q].at)
           /\ DOMAIN dm = Names(kind) /\ "n" \in DOMAIN dm /\ dm["n"].live.what = "crypt"
           /\ dm["n"].live.key \in {"vk", "twin"}
           /\ dm["n"].live # ErrorTable /\ dm["n"].live \in CryptTables
           /\ DmOK(dm, kind, via) /\ kind \in {"crypt", "integrity", "tcrypt"} /\ via \in BOOLEAN
           /\ locked \in BOOLEAN
           /\ Calm => ~locked
           /\ job[p].at \in {"load", "swap"} => /\ kind = "crypt" /\ DOMAIN dm = {"n"}
                                                /\ {"swap", "done", "failed"} \subseteq PlacesOf(job[p].op)
           /\ job[p].at \notin {"load", "swap"} =>
                 /\ kind = "integrity" /\ DOMAIN dm = {"n_dif", "n"}
                 /\ Staging \cup {"done", "failed"} \subseteq PlacesOf(job[p].op)
<1>1. job[p].at # "idle" /\ JobOK(job[p], kind, via) /\ ReloadOK(job[p].at, dm, kind)
  BY Here DEF Working, Staging
<1>2. job[p].key \in {"vk", "twin"} /\ job[p].at \in PlacesOf(job[p].op) /\ kind \in KindsAt(job[p].at)
  BY <1>1, CallAt DEF JobOK
<1>3. \A q \in Proc \ {p} : Free(job[q].at)
  BY OthersOfReloader
<1>4. DOMAIN dm = Names(kind) /\ dm["n"].live.what = "crypt" /\ dm["n"].live.key \in {"vk", "twin"}
  BY <1>1 DEF ReloadOK
<1>5. kind \in {"crypt", "integrity", "tcrypt"} /\ via \in BOOLEAN /\ locked \in BOOLEAN /\ DmOK(dm, kind, via) /\ (Calm => LockPart(dm, locked))
  BY Parts
<1>6. "n" \in DOMAIN dm
  BY <1>4, <1>5 DEF Names
<1>7. dm["n"].live # ErrorTable /\ dm["n"].live \in CryptTables
  BY <1>4, <1>6, LiveIs
<1>8. Calm => ~locked
  BY <1>4, <1>5, <1>6 DEF LockPart
<1>9. job[p].op \in {"refresh", "resize"}
  BY <1>1, CallAt
<1>10. ASSUME job[p].at \in {"load", "swap"}
       PROVE  kind = "crypt" /\ DOMAIN dm = {"n"} /\ {"swap", "done", "failed"} \subseteq PlacesOf(job[p].op)
  <2>1. kind = "crypt"
    BY <1>2, <1>10 DEF KindsAt, Staging
  <2>2. QED
    BY <1>4, <1>9, <2>1 DEF Names, PlacesOf, Entering, Working
<1>11. ASSUME job[p].at \notin {"load", "swap"}
       PROVE  kind = "integrity" /\ DOMAIN dm = {"n_dif", "n"} /\ Staging \cup {"done", "failed"} \subseteq PlacesOf(job[p].op)
  <2>1. kind = "integrity"
    BY <1>2, <1>11 DEF KindsAt, Staging, Working
  <2>2. job[p].op = "refresh"
    BY <1>2, <1>9, <1>11 DEF PlacesOf, Working, Staging
  <2>3. QED
    BY <1>4, <2>1, <2>2 DEF Names, PlacesOf, Entering, Working
<1>12. QED
  BY <1>1, <1>2, <1>3, <1>4, <1>5, <1>6, <1>7, <1>8, <1>10, <1>11

(* A step of a reload that changes tables.                                 *)
LEMMA ReloadChanges ==
    ASSUME ActivationInv, NEW p \in Proc, job[p].at \in Working, NEW a, Go(p, a),
           UNCHANGED <<kind, via, used, deaths, ring, inring, last, locked>>,
           DmOK(dm', kind, via), DOMAIN dm' = DOMAIN dm,
           a \in PlacesOf(job[p].op), kind \in KindsAt(a), ReloadOK(a, dm', kind), a \notin Owning, a # "idle",
           ~(dm'["n"].live.what = "crypt" /\ dm'["n"].live.key = "wiped"),
           \A x \in DOMAIN dm' : dm'[x].load # NoTable => a \in LoadedAt(x) \/ ~Calm,
           \A x \in DOMAIN dm' : dm'[x].susp => a \in SuspendedAt(x) \/ (dm[x].susp /\ job[p].at \notin SuspendedAt(x)),
           \/ kind # "integrity"
           \/ SameVer /\ job[p].at \notin {"resume n", "fatal"}
           \/ Fits(a)
    PROVE  ActivationInv'
<1>1. /\ job[p].at # "idle" /\ job[p].key \in {"vk", "twin"} /\ DOMAIN dm = Names(kind) /\ "n" \in DOMAIN dm
      /\ \A q \in Proc \ {p} : Free(job[q].at)
      /\ locked \in BOOLEAN /\ (Calm => ~locked) /\ (Calmer => Calm)
  BY ReloadFacts, Parts
<1>2. OwnerOK(a, dm', kind)
  BY DEF OwnerOK
<1>3. RingPart(job', via, ring', inring', last')
  BY <1>1, RingGoes
<1>4. ASSUME Calm
      PROVE  (\A x \in DOMAIN dm' : dm'[x].load # NoTable => a \in LoadedAt(x)) /\ LockPart(dm', locked')
  <2>1. ~locked'
    BY <1>1, <1>4
  <2>2. QED
    BY <1>1, <1>4, <2>1 DEF LockPart
<1>5. ASSUME Calmer, NEW x \in DOMAIN dm', dm'[x].susp
      PROVE  a \in SuspendedAt(x) \/ \E q \in Proc \ {p} : job[q].at \in SuspendedAt(x)
  <2>1. CASE a \in SuspendedAt(x)
    BY <2>1
  <2>2. CASE dm[x].susp /\ job[p].at \notin SuspendedAt(x)
    BY <1>1, <1>5, <2>2, AloneIs
  <2>3. QED
    BY <1>5, <2>1, <2>2
<1>6. /\ locked' \in BOOLEAN /\ used' = used /\ (used => "n" \in DOMAIN dm') /\ kind' = kind /\ via' = via
      /\ deaths' = deaths
  BY <1>1
<1>7. DOMAIN dm' \in {{}, Names(kind)}
  BY <1>1
<1>8. QED
  BY <1>1, <1>2, <1>3, <1>4, <1>5, <1>6, <1>7, ChangesGo

(* A step of a reload that fails.                                          *)
LEMMA ReloadFails ==
    ASSUME ActivationInv, NEW p \in Proc, job[p].at \in Working, NEW a \in {"clear", "fatal", "failed"}, Go(p, a), dm' = dm,
           UNCHANGED <<kind, via, used, deaths, ring, inring, last, locked>>,
           \/ a = "failed" /\ Light(job[p].at)
           \/ a = "failed" /\ job[p].at = "swap" /\ ~Calm
           \/ a = "clear" /\ job[p].at \in {"load n", "suspend n", "suspend i", "resume i"}
           \/ a = "fatal" /\ job[p].at = "resume n"
    PROVE  ActivationInv'
<1>1. /\ job[p].at # "idle" /\ job[p].key \in {"vk", "twin"} /\ DOMAIN dm = Names(kind)
      /\ dm["n"].live.what = "crypt" /\ dm["n"].live.key \in {"vk", "twin"} /\ (Calmer => Calm)
      /\ \A q \in Proc \ {p} : Free(job[q].at)
  BY ReloadFacts, Parts
<1>2. a \in PlacesOf(job[p].op) /\ kind \in KindsAt(a)
  <2>1. CASE a = "failed"
    BY <2>1, ReloadFacts, AnyKind
  <2>2. CASE a # "failed"
    <3>1. job[p].at \notin {"load", "swap"} /\ a \in Staging
      BY <2>2 DEF Staging
    <3>2. kind = "integrity" /\ a \in PlacesOf(job[p].op)
      BY <3>1, ReloadFacts
    <3>3. QED
      BY <2>2, <3>2 DEF KindsAt, Staging
  <2>3. QED
    BY <2>1, <2>2
<1>3. ReloadOK(a, dm, kind) /\ OwnerOK(a, dm, kind) /\ a \notin Owning /\ a # "idle"
  BY <1>1 DEF ReloadOK, OwnerOK, Owning
<1>4. RingPart(job', via, ring', inring', last')
  BY <1>1, <1>3, RingGoes
<1>5. Calm => \A x : job[p].at \in LoadedAt(x) => a \in LoadedAt(x)
  BY DEF LoadedAt, Light
<1>6. Calm => \A x : job[p].at \in SuspendedAt(x) => a \in SuspendedAt(x)
  BY DEF SuspendedAt, Light
<1>7. job[p].at \notin Owning /\ (job[p].at \in {"resume n", "fatal"} => a \in {"resume n", "fatal"})
  BY DEF Owning, Working, Staging, Light
<1>8. QED
  BY <1>1, <1>2, <1>3, <1>4, <1>5, <1>6, <1>7, Goes

(* The new table of a reload.                                              *)
LEMMA NewLoadIs ==
    ASSUME ActivationInv, NEW c \in {"vk", "twin"}
    PROVE  /\ CryptTable("n", c, via, "new") \in Tables /\ LoadOK(CryptTable("n", c, via, "new"), "n", kind, via)
           /\ CryptTable("n", c, via, "new") # NoTable
           /\ CryptTable("n", c, via, "new").ver = "new"
<1>1. kind \in {"crypt", "integrity", "tcrypt"} /\ via \in BOOLEAN
  BY Parts
<1>2. Over("n") = Under(kind, "n") /\ Under(kind, "n") \in SUBSET (Name \cup {"data"})
  <2>1. CASE kind = "crypt"
    BY <2>1, StackIs DEF Under, Name
  <2>2. CASE kind = "integrity"
    BY <2>2, StackIs DEF Under, Name
  <2>3. CASE kind = "tcrypt"
    BY <2>3, StackIs DEF Under, Name
  <2>4. QED
    BY <1>1, <2>1, <2>2, <2>3
<1> DEFINE t == CryptTable("n", c, via, "new")
<1>3. t = [over |-> Under(kind, "n"), what |-> "crypt", key |-> c, desc |-> via, ver |-> "new"]
  BY <1>2 DEF CryptTable
<1>4. t \in CryptTables /\ t.over = Under(kind, "n") /\ t.key \in {"vk", "twin"} /\ t.desc = via /\ t.ver = "new"
  BY <1>1, <1>2, <1>3 DEF CryptTables
<1> HIDE DEF t
<1>5. t \in Tables /\ LoadOK(t, "n", kind, via) /\ t # NoTable /\ t.ver = "new"
  BY <1>4, TableKinds DEF LoadOK
<1>6. QED
  BY <1>5 DEF t

(* The new table of the integrity device may be loaded.                    *)
LEMMA NewIntegrityIs ==
    ASSUME NEW k, NEW v
    PROVE  /\ IntegrityTable("new") \in Tables /\ LoadOK(IntegrityTable("new"), "n_dif", k, v)
           /\ IntegrityTable("new") # NoTable /\ IntegrityTable("new").ver = "new"
<1>1. IntegrityTable("new") \in IntegrityTables /\ IntegrityTable("new").ver = "new"
  BY DEF IntegrityTable, IntegrityTables
<1>2. QED
  BY <1>1, TableKinds DEF LoadOK

(* The steps of a reload.                                                  *)
LEMMA LoadTableStep ==
    ASSUME ActivationInv, NEW p \in Proc, LoadTable(p)
    PROVE  ActivationInv'
<1>1. /\ job[p].at = "load" /\ UNCHANGED <<kind, via, used, deaths, ring, inring, last, locked>>
      /\ \/ /\ dm' = Loaded(dm, "n", CryptTable("n", job[p].key, via, "new"))
            /\ Go(p, "swap")
         \/ dm' = dm /\ Go(p, "failed")
  BY DEF LoadTable, DmCall, At, Rest, KeepKeyring, Exists
<1>2. job[p].at \in Working
  BY <1>1 DEF Working, Staging
<1> DEFINE t == CryptTable("n", job[p].key, via, "new")
<1>3. CASE dm' = Loaded(dm, "n", CryptTable("n", job[p].key, via, "new")) /\ Go(p, "swap")
  <2>1. /\ DmOK(dm, kind, via) /\ kind = "crypt" /\ DOMAIN dm = {"n"} /\ job[p].key \in {"vk", "twin"}
        /\ via \in BOOLEAN
        /\ "swap" \in PlacesOf(job[p].op) /\ dm["n"].live.what = "crypt" /\ dm["n"].live.key \in {"vk", "twin"}
        /\ DOMAIN dm = Names(kind)
    BY <1>1, <1>2, ReloadFacts
  <2>3. dm' = Loaded(dm, "n", t)
    BY <1>3
  <2>4. t \in Tables /\ LoadOK(t, "n", kind, via) /\ t # NoTable /\ t.ver = "new"
    BY <2>1, NewLoadIs
  <2> HIDE DEF t
  <2>5. DmOK(dm', kind, via) /\ Has(dm', dm, "n", dm["n"].live, t, dm["n"].susp)
    BY <2>1, <2>3, <2>4, LoadedIs
  <2>6. /\ DOMAIN dm' = {"n"} /\ dm'["n"].live = dm["n"].live /\ dm'["n"].load = t
        /\ (dm'["n"].susp <=> dm["n"].susp)
    BY <2>1, <2>5 DEF Has
  <2>7. ReloadOK("swap", dm', kind) /\ kind \in KindsAt("swap") /\ "swap" \notin Owning
    <3>1. ReloadOK("swap", dm', kind)
      BY <2>1, <2>4, <2>6 DEF ReloadOK, Working, Staging
    <3>2. kind \in KindsAt("swap") /\ "swap" \notin Owning
      BY <2>1 DEF KindsAt, Owning, Staging
    <3>3. QED
      BY <3>1, <3>2
  <2>8. "swap" \in LoadedAt("n") /\ "load" \notin SuspendedAt("n")
    BY DEF LoadedAt, SuspendedAt
  <2>9. QED
    BY <1>1, <1>2, <1>3, <2>1, <2>5, <2>6, <2>7, <2>8, ReloadChanges
<1>4. CASE dm' = dm /\ Go(p, "failed")
  <2>1. Light(job[p].at)
    BY <1>1, LightAre
  <2>2. QED
    BY <1>1, <1>2, <1>4, <2>1, ReloadFails
<1>5. QED
  BY <1>1, <1>3, <1>4

(* _reload_device resumes: the new table is live.                          *)
LEMMA SwapTableStep ==
    ASSUME ActivationInv, NEW p \in Proc, SwapTable(p)
    PROVE  ActivationInv'
<1>1. /\ job[p].at = "swap" /\ UNCHANGED <<kind, via, used, deaths, ring, inring, last, locked>>
      /\ \/ dm' = Resumed(dm, "n") /\ Go(p, "done")
         \/ dm' = dm /\ Go(p, "failed") /\ (~("n" \in DOMAIN dm /\ HasKey("n")) \/ <<kind, "resume">> \in FaultsAt)
  BY DEF SwapTable, DmCall, At, Rest, KeepKeyring, Exists, Fault
<1>2. job[p].at \in Working
  BY <1>1 DEF Working, Staging
<1>3. /\ DmOK(dm, kind, via) /\ kind = "crypt" /\ DOMAIN dm = {"n"} /\ "done" \in PlacesOf(job[p].op)
      /\ ReloadOK("swap", dm, kind) /\ "n" \in DOMAIN dm /\ DOMAIN dm = Names(kind)
  BY <1>1, <1>2, ReloadFacts
<1>4. dm["n"].load # NoTable
  BY <1>3 DEF ReloadOK
<1>5. CASE dm' = Resumed(dm, "n") /\ Go(p, "done")
  <2>1. /\ DmOK(dm', kind, via) /\ Has(dm', dm, "n", Swapped(dm["n"]), NoTable, FALSE)
        /\ ~(Swapped(dm["n"]).what = "crypt" /\ Swapped(dm["n"]).key = "wiped")
    BY <1>3, <1>4, <1>5, ResumedIs
  <2>2. /\ DOMAIN dm' = {"n"} /\ dm'["n"].live = Swapped(dm["n"]) /\ dm'["n"].load = NoTable
        /\ ~dm'["n"].susp
    BY <1>3, <2>1 DEF Has
  <2>3. ReloadOK("done", dm', kind) /\ kind \in KindsAt("done") /\ "done" \notin Owning
    BY <1>3 DEF ReloadOK, KindsAt, Owning, Working, Staging
  <2>4. QED
    BY <1>1, <1>2, <1>3, <1>5, <2>1, <2>2, <2>3, ReloadChanges
<1>6. CASE dm' = dm /\ Go(p, "failed") /\ (~("n" \in DOMAIN dm /\ HasKey("n")) \/ <<kind, "resume">> \in FaultsAt)
  <2>1. <<kind, "resume">> \in FaultsAt
    BY <1>3, <1>4, <1>6 DEF HasKey
  <2>2. ~Calm
    BY <1>3, <2>1 DEF Calm
  <2>3. QED
    BY <1>1, <1>2, <1>6, <2>2, ReloadFails
<1>7. QED
  BY <1>1, <1>5, <1>6

(* _reload_device_with_integrity loads the table below,                    *)
LEMMA LoadIntegrityStep ==
    ASSUME ActivationInv, NEW p \in Proc, LoadIntegrity(p)
    PROVE  ActivationInv'
<1>1. /\ job[p].at = "load i" /\ UNCHANGED <<kind, via, used, deaths, ring, inring, last, locked>>
      /\ \/ "n_dif" \in DOMAIN dm /\ dm' = Loaded(dm, "n_dif", IntegrityTable("new")) /\ Go(p, "load n")
         \/ dm' = dm /\ Go(p, "failed")
  BY DEF LoadIntegrity, DmCall, At, Rest, KeepKeyring, Exists
<1>2. job[p].at \in Working
  BY <1>1 DEF Working, Staging
<1>0. /\ DmOK(dm, kind, via) /\ kind = "integrity" /\ DOMAIN dm = {"n_dif", "n"} /\ job[p].key \in {"vk", "twin"}
      /\ via \in BOOLEAN
      /\ {"done"} \cup Staging \subseteq PlacesOf(job[p].op) /\ dm["n"].live.what = "crypt"
      /\ dm["n"].live.key \in {"vk", "twin"}
      /\ dm["n"].live # ErrorTable /\ ReloadOK(job[p].at, dm, kind) /\ DOMAIN dm = Names(kind)
      /\ \A q \in Proc \ {p} : Free(job[q].at)
  BY <1>1, <1>2, ReloadFacts
<1>3. CASE dm' = Loaded(dm, "n_dif", IntegrityTable("new")) /\ Go(p, "load n")
  <2> DEFINE t == IntegrityTable("new")
  <2>1. /\ t \in Tables /\ LoadOK(t, "n_dif", kind, via) /\ t # NoTable /\ t.ver = "new"
        /\ dm' = Loaded(dm, "n_dif", t)
    BY <1>3, NewIntegrityIs
  <2> HIDE DEF t
  <2>2. DmOK(dm', kind, via) /\ Has(dm', dm, "n_dif", dm["n_dif"].live, t, dm["n_dif"].susp)
    BY <1>0, <2>1, LoadedIs
  <2>3. /\ DOMAIN dm' = {"n_dif", "n"} /\ dm'["n"] = dm["n"]
        /\ dm'["n_dif"].live = dm["n_dif"].live /\ dm'["n_dif"].load = t
        /\ (dm'["n_dif"].susp <=> dm["n_dif"].susp)
    BY <1>0, <2>2 DEF Has, Same
  <2>4. /\ ReloadOK("load n", dm', kind) /\ kind \in KindsAt("load n") /\ "load n" \notin Owning
        /\ "load n" \in Staging
    BY <1>0, <2>1, <2>3 DEF ReloadOK, KindsAt, Owning, Staging
  <2>5. /\ "load n" \in LoadedAt("n_dif") /\ "load i" \notin LoadedAt("n")
        /\ "load i" \notin SuspendedAt("n") /\ "load i" \notin SuspendedAt("n_dif")
    BY DEF LoadedAt, SuspendedAt
  <2>6. Calm => dm["n"].load = NoTable
    <3>1. Calm => \A x \in DOMAIN dm : dm[x].load # NoTable => job[p].at \in LoadedAt(x)
      BY <1>0, AloneIs
    <3>2. "n" \in DOMAIN dm
      BY <1>0
    <3>3. QED
      BY <1>1, <2>5, <3>1, <3>2
  <2>7. SameVer
    BY <1>0, <2>3 DEF SameVer
  <2>8. /\ \A x \in DOMAIN dm' : dm'[x].load # NoTable => "load n" \in LoadedAt(x) \/ ~Calm
        /\ \A x \in DOMAIN dm' : dm'[x].susp => "load n" \in SuspendedAt(x) \/ (dm[x].susp /\ job[p].at \notin SuspendedAt(x))
        /\ ~(dm'["n"].live.what = "crypt" /\ dm'["n"].live.key = "wiped")
    BY <1>0, <1>1, <2>3, <2>5, <2>6
  <2>9. QED
    BY <1>0, <1>1, <1>2, <1>3, <2>2, <2>3, <2>4, <2>7, <2>8, ReloadChanges
<1>4. CASE dm' = dm /\ Go(p, "failed")
  <2>1. Light(job[p].at)
    BY <1>1, LightAre
  <2>2. QED
    BY <1>1, <1>2, <1>4, <2>1, ReloadFails
<1>5. QED
  BY <1>1, <1>3, <1>4

(* then the one on top,                                                    *)
LEMMA LoadCryptStep ==
    ASSUME ActivationInv, NEW p \in Proc, LoadCrypt(p)
    PROVE  ActivationInv'
<1>1. /\ job[p].at = "load n" /\ UNCHANGED <<kind, via, used, deaths, ring, inring, last, locked>>
      /\ \/ "n" \in DOMAIN dm /\ dm' = Loaded(dm, "n", CryptTable("n", job[p].key, via, "new")) /\ Go(p, "suspend n")
         \/ dm' = dm /\ Go(p, "clear")
  BY DEF LoadCrypt, DmCall, At, Rest, KeepKeyring, Exists
<1>2. job[p].at \in Working
  BY <1>1 DEF Working, Staging
<1>0. /\ DmOK(dm, kind, via) /\ kind = "integrity" /\ DOMAIN dm = {"n_dif", "n"} /\ job[p].key \in {"vk", "twin"}
      /\ via \in BOOLEAN
      /\ {"done"} \cup Staging \subseteq PlacesOf(job[p].op) /\ dm["n"].live.what = "crypt"
      /\ dm["n"].live.key \in {"vk", "twin"}
      /\ dm["n"].live # ErrorTable /\ ReloadOK(job[p].at, dm, kind) /\ DOMAIN dm = Names(kind)
      /\ \A q \in Proc \ {p} : Free(job[q].at)
  BY <1>1, <1>2, ReloadFacts
<1>3. CASE dm' = Loaded(dm, "n", CryptTable("n", job[p].key, via, "new")) /\ Go(p, "suspend n")
  <2> DEFINE t == CryptTable("n", job[p].key, via, "new")
  <2>1. /\ t \in Tables /\ LoadOK(t, "n", kind, via) /\ t # NoTable /\ t.ver = "new"
        /\ dm' = Loaded(dm, "n", t)
    BY <1>0, <1>3, NewLoadIs
  <2> HIDE DEF t
  <2>2. DmOK(dm', kind, via) /\ Has(dm', dm, "n", dm["n"].live, t, dm["n"].susp)
    BY <1>0, <2>1, LoadedIs
  <2>3. /\ DOMAIN dm' = {"n_dif", "n"} /\ dm'["n_dif"] = dm["n_dif"]
        /\ dm'["n"].live = dm["n"].live /\ dm'["n"].load = t /\ (dm'["n"].susp <=> dm["n"].susp)
    BY <1>0, <2>2 DEF Has, Same
  <2>4. /\ ReloadOK("suspend n", dm', kind) /\ kind \in KindsAt("suspend n") /\ "suspend n" \notin Owning
        /\ "suspend n" \in Staging
    BY <1>0, <1>1, <2>1, <2>3 DEF ReloadOK, KindsAt, Owning, Staging
  <2>5. /\ "suspend n" \in LoadedAt("n_dif") /\ "suspend n" \in LoadedAt("n")
        /\ "load n" \notin SuspendedAt("n") /\ "load n" \notin SuspendedAt("n_dif")
    BY DEF LoadedAt, SuspendedAt
  <2>6. SameVer
    BY <1>0, <2>3 DEF SameVer
  <2>7. /\ \A x \in DOMAIN dm' : dm'[x].load # NoTable => "suspend n" \in LoadedAt(x) \/ ~Calm
        /\ \A x \in DOMAIN dm' : dm'[x].susp => "suspend n" \in SuspendedAt(x) \/ (dm[x].susp /\ job[p].at \notin SuspendedAt(x))
        /\ ~(dm'["n"].live.what = "crypt" /\ dm'["n"].live.key = "wiped")
    BY <1>0, <1>1, <2>3, <2>5
  <2>8. QED
    BY <1>0, <1>1, <1>2, <1>3, <2>2, <2>3, <2>4, <2>6, <2>7, ReloadChanges
<1>4. CASE dm' = dm /\ Go(p, "clear")
  BY <1>1, <1>2, <1>4, ReloadFails
<1>5. QED
  BY <1>1, <1>3, <1>4

(* suspends the top,                                                       *)
LEMMA SuspendCryptStep ==
    ASSUME ActivationInv, NEW p \in Proc, SuspendCrypt(p)
    PROVE  ActivationInv'
<1>1. /\ job[p].at = "suspend n" /\ UNCHANGED <<kind, via, used, deaths, ring, inring, last, locked>>
      /\ \/ "n" \in DOMAIN dm /\ dm' = SuspendedNow(dm, "n") /\ Go(p, "suspend i")
         \/ dm' = dm /\ Go(p, "clear")
  BY DEF SuspendCrypt, DmCall, At, Rest, KeepKeyring, Exists
<1>2. job[p].at \in Working
  BY <1>1 DEF Working, Staging
<1>0. /\ DmOK(dm, kind, via) /\ kind = "integrity" /\ DOMAIN dm = {"n_dif", "n"} /\ job[p].key \in {"vk", "twin"}
      /\ via \in BOOLEAN
      /\ {"done"} \cup Staging \subseteq PlacesOf(job[p].op) /\ dm["n"].live.what = "crypt"
      /\ dm["n"].live.key \in {"vk", "twin"}
      /\ dm["n"].live # ErrorTable /\ ReloadOK(job[p].at, dm, kind) /\ DOMAIN dm = Names(kind)
      /\ \A q \in Proc \ {p} : Free(job[q].at)
  BY <1>1, <1>2, ReloadFacts
<1>3. CASE dm' = SuspendedNow(dm, "n") /\ Go(p, "suspend i")
  <2>1. DmOK(dm', kind, via) /\ Has(dm', dm, "n", dm["n"].live, dm["n"].load, TRUE)
    BY <1>0, <1>3, SuspendedIs
  <2>2. /\ DOMAIN dm' = {"n_dif", "n"} /\ dm'["n_dif"] = dm["n_dif"]
        /\ dm'["n"].live = dm["n"].live /\ dm'["n"].load = dm["n"].load
    BY <1>0, <2>1 DEF Has, Same
  <2>3. /\ ReloadOK("suspend i", dm', kind) /\ kind \in KindsAt("suspend i") /\ "suspend i" \notin Owning
        /\ "suspend i" \in Staging
    BY <1>0, <1>1, <2>2 DEF ReloadOK, KindsAt, Owning, Staging
  <2>4. /\ "suspend i" \in LoadedAt("n_dif") /\ "suspend i" \in LoadedAt("n")
        /\ "suspend i" \in SuspendedAt("n")
        /\ "suspend i" \in SuspendedAt("n_dif") \/ ("n_dif" # "n" /\ "suspend n" \notin SuspendedAt("n_dif"))
    BY DEF LoadedAt, SuspendedAt
  <2>5. SameVer
    BY <1>0, <2>2 DEF SameVer
  <2>6. /\ \A z \in DOMAIN dm' : dm'[z].load # NoTable => "suspend i" \in LoadedAt(z) \/ ~Calm
        /\ \A z \in DOMAIN dm' : dm'[z].susp => "suspend i" \in SuspendedAt(z) \/ (dm[z].susp /\ job[p].at \notin SuspendedAt(z))
        /\ ~(dm'["n"].live.what = "crypt" /\ dm'["n"].live.key = "wiped")
    BY <1>0, <1>1, <2>2, <2>4
  <2>7. QED
    BY <1>0, <1>1, <1>2, <1>3, <2>1, <2>2, <2>3, <2>5, <2>6, ReloadChanges
<1>4. CASE dm' = dm /\ Go(p, "clear")
  BY <1>1, <1>2, <1>4, ReloadFails
<1>5. QED
  BY <1>1, <1>3, <1>4

(* and then the device below.                                              *)
LEMMA SuspendIntegrityStep ==
    ASSUME ActivationInv, NEW p \in Proc, SuspendIntegrity(p)
    PROVE  ActivationInv'
<1>1. /\ job[p].at = "suspend i" /\ UNCHANGED <<kind, via, used, deaths, ring, inring, last, locked>>
      /\ \/ "n_dif" \in DOMAIN dm /\ dm' = SuspendedNow(dm, "n_dif") /\ Go(p, "resume i")
         \/ dm' = dm /\ Go(p, "clear")
  BY DEF SuspendIntegrity, DmCall, At, Rest, KeepKeyring, Exists
<1>2. job[p].at \in Working
  BY <1>1 DEF Working, Staging
<1>0. /\ DmOK(dm, kind, via) /\ kind = "integrity" /\ DOMAIN dm = {"n_dif", "n"} /\ job[p].key \in {"vk", "twin"}
      /\ via \in BOOLEAN
      /\ {"done"} \cup Staging \subseteq PlacesOf(job[p].op) /\ dm["n"].live.what = "crypt"
      /\ dm["n"].live.key \in {"vk", "twin"}
      /\ dm["n"].live # ErrorTable /\ ReloadOK(job[p].at, dm, kind) /\ DOMAIN dm = Names(kind)
      /\ \A q \in Proc \ {p} : Free(job[q].at)
  BY <1>1, <1>2, ReloadFacts
<1>3. CASE dm' = SuspendedNow(dm, "n_dif") /\ Go(p, "resume i")
  <2>1. DmOK(dm', kind, via) /\ Has(dm', dm, "n_dif", dm["n_dif"].live, dm["n_dif"].load, TRUE)
    BY <1>0, <1>3, SuspendedIs
  <2>2. /\ DOMAIN dm' = {"n_dif", "n"} /\ dm'["n"] = dm["n"]
        /\ dm'["n_dif"].live = dm["n_dif"].live /\ dm'["n_dif"].load = dm["n_dif"].load
    BY <1>0, <2>1 DEF Has, Same
  <2>3. /\ ReloadOK("resume i", dm', kind) /\ kind \in KindsAt("resume i") /\ "resume i" \notin Owning
        /\ "resume i" \in Staging
    BY <1>0, <1>1, <2>2 DEF ReloadOK, KindsAt, Owning, Staging
  <2>4. /\ "resume i" \in LoadedAt("n_dif") /\ "resume i" \in LoadedAt("n")
        /\ "resume i" \in SuspendedAt("n")
        /\ "resume i" \in SuspendedAt("n_dif") \/ ("n_dif" # "n_dif" /\ "suspend i" \notin SuspendedAt("n_dif"))
    BY DEF LoadedAt, SuspendedAt
  <2>5. SameVer
    BY <1>0, <2>2 DEF SameVer
  <2>6. /\ \A z \in DOMAIN dm' : dm'[z].load # NoTable => "resume i" \in LoadedAt(z) \/ ~Calm
        /\ \A z \in DOMAIN dm' : dm'[z].susp => "resume i" \in SuspendedAt(z) \/ (dm[z].susp /\ job[p].at \notin SuspendedAt(z))
        /\ ~(dm'["n"].live.what = "crypt" /\ dm'["n"].live.key = "wiped")
    BY <1>0, <1>1, <2>2, <2>4
  <2>7. QED
    BY <1>0, <1>1, <1>2, <1>3, <2>1, <2>2, <2>3, <2>5, <2>6, ReloadChanges
<1>4. CASE dm' = dm /\ Go(p, "clear")
  BY <1>1, <1>2, <1>4, ReloadFails
<1>5. QED
  BY <1>1, <1>3, <1>4

(* It resumes the device below: its new table is live, the old one above   *)
(* it still suspended;                                                     *)
LEMMA ResumeIntegrityStep ==
    ASSUME ActivationInv, NEW p \in Proc, ResumeIntegrity(p)
    PROVE  ActivationInv'
<1>1. /\ job[p].at = "resume i" /\ UNCHANGED <<kind, via, used, deaths, ring, inring, last, locked>>
      /\ \/ "n_dif" \in DOMAIN dm /\ dm' = Resumed(dm, "n_dif") /\ Go(p, "resume n")
         \/ dm' = dm /\ Go(p, "clear")
  BY DEF ResumeIntegrity, DmCall, At, Rest, KeepKeyring, Exists
<1>2. job[p].at \in Working
  BY <1>1 DEF Working, Staging
<1>0. /\ DmOK(dm, kind, via) /\ kind = "integrity" /\ DOMAIN dm = {"n_dif", "n"} /\ job[p].key \in {"vk", "twin"}
      /\ via \in BOOLEAN
      /\ {"done"} \cup Staging \subseteq PlacesOf(job[p].op) /\ dm["n"].live.what = "crypt"
      /\ dm["n"].live.key \in {"vk", "twin"}
      /\ dm["n"].live # ErrorTable /\ ReloadOK(job[p].at, dm, kind) /\ DOMAIN dm = Names(kind)
      /\ \A q \in Proc \ {p} : Free(job[q].at)
  BY <1>1, <1>2, ReloadFacts
<1>3. CASE dm' = Resumed(dm, "n_dif") /\ Go(p, "resume n")
  <2>1. /\ dm["n_dif"].load # NoTable /\ dm["n_dif"].load.ver = "new" /\ dm["n"].load # NoTable
        /\ dm["n"].load.ver = "new"
    BY <1>0, <1>1 DEF ReloadOK
  <2>2. /\ DmOK(dm', kind, via) /\ Has(dm', dm, "n_dif", Swapped(dm["n_dif"]), NoTable, FALSE)
        /\ Swapped(dm["n_dif"]) # ErrorTable
    BY <1>0, <1>3, <2>1, ResumedIs
  <2>3. /\ DOMAIN dm' = {"n_dif", "n"} /\ dm'["n"] = dm["n"]
        /\ dm'["n_dif"].live = dm["n_dif"].load /\ dm'["n_dif"].live # ErrorTable
        /\ dm'["n_dif"].load = NoTable /\ ~dm'["n_dif"].susp
    BY <1>0, <2>1, <2>2 DEF Has, Same, Swapped
  <2>4. /\ ReloadOK("resume n", dm', kind) /\ kind \in KindsAt("resume n") /\ "resume n" \notin Owning
        /\ "resume n" \in Staging
    BY <1>0, <2>1, <2>3 DEF ReloadOK, KindsAt, Owning, Staging
  <2>5. "resume n" \in LoadedAt("n") /\ "resume n" \in SuspendedAt("n")
    BY DEF LoadedAt, SuspendedAt
  <2>6. Fits("resume n")
    BY <1>0, <2>3 DEF Fits
  <2>7. /\ \A x \in DOMAIN dm' : dm'[x].load # NoTable => "resume n" \in LoadedAt(x) \/ ~Calm
        /\ \A x \in DOMAIN dm' : dm'[x].susp => "resume n" \in SuspendedAt(x) \/ (dm[x].susp /\ job[p].at \notin SuspendedAt(x))
        /\ ~(dm'["n"].live.what = "crypt" /\ dm'["n"].live.key = "wiped")
    BY <1>0, <2>3, <2>5
  <2>8. QED
    BY <1>0, <1>1, <1>2, <1>3, <2>2, <2>3, <2>4, <2>6, <2>7, ReloadChanges
<1>4. CASE dm' = dm /\ Go(p, "clear")
  BY <1>1, <1>2, <1>4, ReloadFails
<1>5. QED
  BY <1>1, <1>3, <1>4

(* and then the top: both tables are new.                                  *)
LEMMA ResumeCryptStep ==
    ASSUME ActivationInv, NEW p \in Proc, ResumeCrypt(p)
    PROVE  ActivationInv'
<1>1. /\ job[p].at = "resume n" /\ UNCHANGED <<kind, via, used, deaths, ring, inring, last, locked>>
      /\ \/ "n" \in DOMAIN dm /\ dm' = Resumed(dm, "n") /\ Go(p, "done")
         \/ dm' = dm /\ Go(p, "fatal")
  BY DEF ResumeCrypt, DmCall, At, Rest, KeepKeyring, Exists
<1>2. job[p].at \in Working
  BY <1>1 DEF Working, Staging
<1>0. /\ DmOK(dm, kind, via) /\ kind = "integrity" /\ DOMAIN dm = {"n_dif", "n"} /\ job[p].key \in {"vk", "twin"}
      /\ via \in BOOLEAN
      /\ {"done"} \cup Staging \subseteq PlacesOf(job[p].op) /\ dm["n"].live.what = "crypt"
      /\ dm["n"].live.key \in {"vk", "twin"}
      /\ dm["n"].live # ErrorTable /\ ReloadOK(job[p].at, dm, kind) /\ DOMAIN dm = Names(kind)
      /\ \A q \in Proc \ {p} : Free(job[q].at)
  BY <1>1, <1>2, ReloadFacts
<1>3. CASE dm' = Resumed(dm, "n") /\ Go(p, "done")
  <2>1. /\ dm["n"].load # NoTable /\ dm["n"].load.ver = "new" /\ dm["n_dif"].live # ErrorTable
        /\ dm["n_dif"].live.ver = "new"
    BY <1>0, <1>1 DEF ReloadOK
  <2>2. /\ DmOK(dm', kind, via) /\ Has(dm', dm, "n", Swapped(dm["n"]), NoTable, FALSE)
        /\ Swapped(dm["n"]) # ErrorTable
        /\ ~(Swapped(dm["n"]).what = "crypt" /\ Swapped(dm["n"]).key = "wiped")
    BY <1>0, <1>3, <2>1, ResumedIs
  <2>3. /\ DOMAIN dm' = {"n_dif", "n"} /\ dm'["n_dif"] = dm["n_dif"]
        /\ dm'["n"].live = dm["n"].load /\ dm'["n"].live # ErrorTable /\ dm'["n"].load = NoTable
        /\ ~dm'["n"].susp
        /\ ~(dm'["n"].live.what = "crypt" /\ dm'["n"].live.key = "wiped")
    BY <1>0, <2>1, <2>2 DEF Has, Same, Swapped
  <2>4. ReloadOK("done", dm', kind) /\ kind \in KindsAt("done") /\ "done" \notin Owning
    BY <1>0 DEF ReloadOK, KindsAt, Owning, Staging, Working
  <2>5. "resume n" \notin LoadedAt("n_dif") /\ "resume n" \notin SuspendedAt("n_dif")
    BY DEF LoadedAt, SuspendedAt
  <2>6. Calm => dm["n_dif"].load = NoTable
    <3>1. Calm => \A x \in DOMAIN dm : dm[x].load # NoTable => job[p].at \in LoadedAt(x)
      BY <1>0, AloneIs
    <3>2. "n_dif" \in DOMAIN dm
      BY <1>0
    <3>3. QED
      BY <1>1, <2>5, <3>1, <3>2
  <2>7. Fits("done")
    BY <2>1, <2>3 DEF Fits
  <2>8. /\ \A x \in DOMAIN dm' : dm'[x].load # NoTable => "done" \in LoadedAt(x) \/ ~Calm
        /\ \A x \in DOMAIN dm' : dm'[x].susp => "done" \in SuspendedAt(x) \/ (dm[x].susp /\ job[p].at \notin SuspendedAt(x))
    BY <1>1, <2>3, <2>5, <2>6
  <2>9. QED
    BY <1>0, <1>1, <1>2, <1>3, <2>2, <2>3, <2>4, <2>7, <2>8, ReloadChanges
<1>4. CASE dm' = dm /\ Go(p, "fatal")
  BY <1>1, <1>2, <1>4, ReloadFails
<1>5. QED
  BY <1>1, <1>3, <1>4

(* The resume below fails and the device has lost its new table.           *)
LEMMA StuckStep ==
    ASSUME ActivationInv, NEW p \in Proc, ResumeIntegrityStuck(p)
    PROVE  ActivationInv'
<1>1. /\ job[p].at = "resume i" /\ UNCHANGED <<kind, via, used, deaths, ring, inring, last, locked>>
      /\ dm' = ResumeStuck(dm, "n_dif") /\ Go(p, "clear")
  BY DEF ResumeIntegrityStuck, At, Rest, KeepKeyring
<1>2. job[p].at \in Working
  BY <1>1 DEF Working, Staging
<1>0. /\ DmOK(dm, kind, via) /\ kind = "integrity" /\ DOMAIN dm = {"n_dif", "n"} /\ job[p].key \in {"vk", "twin"}
      /\ via \in BOOLEAN
      /\ {"done"} \cup Staging \subseteq PlacesOf(job[p].op) /\ dm["n"].live.what = "crypt"
      /\ dm["n"].live.key \in {"vk", "twin"}
      /\ dm["n"].live # ErrorTable /\ ReloadOK(job[p].at, dm, kind) /\ DOMAIN dm = Names(kind)
      /\ \A q \in Proc \ {p} : Free(job[q].at)
  BY <1>1, <1>2, ReloadFacts
<1>3. DmOK(dm', kind, via) /\ Has(dm', dm, "n_dif", dm["n_dif"].live, NoTable, TRUE)
  BY <1>0, <1>1, StuckIs
<1>4. /\ DOMAIN dm' = {"n_dif", "n"} /\ dm'["n"] = dm["n"] /\ dm'["n_dif"].live = dm["n_dif"].live
      /\ dm'["n_dif"].load = NoTable
  BY <1>0, <1>3 DEF Has, Same
<1>5. /\ ReloadOK("clear", dm', kind) /\ kind \in KindsAt("clear") /\ "clear" \notin Owning
      /\ "clear" \in Staging
  BY <1>0, <1>4 DEF ReloadOK, KindsAt, Owning, Staging
<1>6. "clear" \in LoadedAt("n") /\ "clear" \in SuspendedAt("n") /\ "clear" \in SuspendedAt("n_dif")
  BY DEF LoadedAt, SuspendedAt
<1>7. SameVer
  BY <1>0, <1>4 DEF SameVer
<1>8. /\ \A x \in DOMAIN dm' : dm'[x].load # NoTable => "clear" \in LoadedAt(x) \/ ~Calm
      /\ \A x \in DOMAIN dm' : dm'[x].susp => "clear" \in SuspendedAt(x) \/ (dm[x].susp /\ job[p].at \notin SuspendedAt(x))
      /\ ~(dm'["n"].live.what = "crypt" /\ dm'["n"].live.key = "wiped")
  BY <1>0, <1>4, <1>6
<1>9. QED
  BY <1>0, <1>1, <1>2, <1>3, <1>4, <1>5, <1>7, <1>8, ReloadChanges

(* The old tables are live again everywhere, and nothing is suspended.     *)
LEMMA ClearStep ==
    ASSUME ActivationInv, NEW p \in Proc, ClearTables(p)
    PROVE  ActivationInv'
<1>1. /\ job[p].at = "clear" /\ UNCHANGED <<kind, via, used, deaths, ring, inring, last, locked>>
      /\ dm' = [d \in DOMAIN dm |-> [dm[d] EXCEPT !.load = NoTable, !.susp = @ /\ Wiped(d)]] /\ Go(p, "failed")
  BY DEF ClearTables, At, Rest, KeepKeyring
<1>2. job[p].at \in Working
  BY <1>1 DEF Working, Staging
<1>0. /\ DmOK(dm, kind, via) /\ kind = "integrity" /\ DOMAIN dm = {"n_dif", "n"} /\ job[p].key \in {"vk", "twin"}
      /\ via \in BOOLEAN
      /\ {"failed"} \cup Staging \subseteq PlacesOf(job[p].op) /\ dm["n"].live.what = "crypt"
      /\ dm["n"].live.key \in {"vk", "twin"}
      /\ dm["n"].live # ErrorTable /\ ReloadOK(job[p].at, dm, kind) /\ DOMAIN dm = Names(kind)
      /\ \A q \in Proc \ {p} : Free(job[q].at)
  BY <1>1, <1>2, ReloadFacts
<1>3. DOMAIN dm' = DOMAIN dm /\ dm' = [d \in DOMAIN dm' |-> dm'[d]]
  BY <1>1
<1>4. ASSUME NEW x \in DOMAIN dm
      PROVE  DevOK(dm'[x], x, kind, via) /\ dm'[x].live = dm[x].live /\ dm'[x].load = NoTable /\ ~dm'[x].susp
  <2>1. DevOK(dm[x], x, kind, via) /\ dm[x] \in Devices
    BY <1>0 DEF DmOK, DevOK
  <2>2. ~(dm[x].live.what = "crypt" /\ dm[x].live.key = "wiped")
    <3>1. CASE x = "n"
      BY <1>0, <3>1
    <3>2. CASE x = "n_dif"
      BY <2>1, <3>2, TableKinds DEF DevOK, LiveOK
    <3>3. QED
      BY <1>0, <3>1, <3>2
  <2>3. dm'[x] = [dm[x] EXCEPT !.load = NoTable, !.susp = FALSE]
    <3>1. ~Wiped(x)
      BY <2>2 DEF Wiped, IsCrypt
    <3>2. dm'[x] = [dm[x] EXCEPT !.load = NoTable, !.susp = dm[x].susp /\ Wiped(x)]
      BY <1>1
    <3>3. (dm[x].susp /\ Wiped(x)) = FALSE
      BY <3>1
    <3>4. QED
      BY <3>2, <3>3
  <2>4. dm'[x].live = dm[x].live /\ dm'[x].load = NoTable /\ ~dm'[x].susp
    BY <2>1, <2>3 DEF Devices
  <2>5. dm'[x] \in Devices
    BY <2>1, <2>3, TableKinds DEF Devices
  <2>6. QED
    BY <2>1, <2>2, <2>4, <2>5 DEF DevOK, LoadOK
<1>5. DmOK(dm', kind, via)
  BY <1>0, <1>3, <1>4 DEF DmOK
<1>6. ReloadOK("failed", dm', kind) /\ kind \in KindsAt("failed") /\ "failed" \notin Owning
  BY <1>0 DEF ReloadOK, KindsAt, Owning, Staging, Working
<1>7. SameVer
  BY <1>3, <1>4 DEF SameVer
<1>8. /\ \A x \in DOMAIN dm' : dm'[x].load = NoTable /\ ~dm'[x].susp
      /\ ~(dm'["n"].live.what = "crypt" /\ dm'["n"].live.key = "wiped")
  BY <1>0, <1>3, <1>4
<1>9. QED
  BY <1>0, <1>1, <1>2, <1>3, <1>5, <1>6, <1>7, <1>8, ReloadChanges

(* Both devices have the error table.                                      *)
LEMMA BurnStep ==
    ASSUME ActivationInv, NEW p \in Proc, BurnTables(p)
    PROVE  ActivationInv'
<1>1. /\ job[p].at = "fatal" /\ UNCHANGED <<kind, via, used, deaths, ring, inring, last, locked>>
      /\ dm' = [d \in DOMAIN dm |-> Device(ErrorTable)] /\ Go(p, "failed")
  BY DEF BurnTables, At, Rest, KeepKeyring
<1>2. job[p].at \in Working
  BY <1>1 DEF Working, Staging
<1>0. /\ DmOK(dm, kind, via) /\ kind = "integrity" /\ DOMAIN dm = {"n_dif", "n"} /\ job[p].key \in {"vk", "twin"}
      /\ via \in BOOLEAN
      /\ {"failed"} \cup Staging \subseteq PlacesOf(job[p].op) /\ dm["n"].live.what = "crypt"
      /\ dm["n"].live.key \in {"vk", "twin"}
      /\ dm["n"].live # ErrorTable /\ ReloadOK(job[p].at, dm, kind) /\ DOMAIN dm = Names(kind)
      /\ \A q \in Proc \ {p} : Free(job[q].at)
  BY <1>1, <1>2, ReloadFacts
<1>3. /\ DOMAIN dm' = DOMAIN dm /\ dm' = [d \in DOMAIN dm' |-> dm'[d]]
      /\ \A x \in DOMAIN dm : dm'[x] = Dev(ErrorTable, NoTable, FALSE)
  BY <1>1 DEF Device, Dev
<1>4. \A x \in DOMAIN dm : dm'[x].live = ErrorTable /\ dm'[x].load = NoTable /\ ~dm'[x].susp /\ dm'[x] \in Devices
  <2>1. ErrorTable \in Tables /\ NoTable \in Tables /\ FALSE \in BOOLEAN
    BY TableKinds
  <2> DEFINE e == Dev(ErrorTable, NoTable, FALSE)
  <2>2. e.live = ErrorTable /\ e.load = NoTable /\ e.susp = FALSE /\ e \in Devices
    BY <2>1, DevIs
  <2>3. \A x \in DOMAIN dm : dm'[x] = e
    BY <1>3
  <2> HIDE DEF e
  <2>4. QED
    BY <2>2, <2>3
<1>5. ASSUME NEW x \in DOMAIN dm PROVE DevOK(dm'[x], x, kind, via)
  BY <1>4, TableKinds DEF DevOK, LiveOK, LoadOK
<1>6. DmOK(dm', kind, via)
  BY <1>0, <1>3, <1>5 DEF DmOK
<1>7. ReloadOK("failed", dm', kind) /\ kind \in KindsAt("failed") /\ "failed" \notin Owning
  BY <1>0 DEF ReloadOK, KindsAt, Owning, Staging, Working
<1>8. Fits("failed") /\ ~(dm'["n"].live.what = "crypt" /\ dm'["n"].live.key = "wiped")
  BY <1>0, <1>4, TableKinds DEF Fits
<1>9. QED
  BY <1>0, <1>1, <1>2, <1>3, <1>4, <1>6, <1>7, <1>8, ReloadChanges

(* Tables that fit together still do.                                      *)
LEMMA VerStays ==
    ASSUME ActivationInv, NEW p \in Proc, job[p].at \notin {"resume n", "fatal"},
           \A q \in Proc : q # p => job'[q] = job[q], SameVer, Calmer
    PROVE  VerPart(dm', job', kind)
<1>1. VerPart(dm, job, kind)
  BY Parts
<1>2. Somebody(job, {"resume n", "fatal"}) => Somebody(job', {"resume n", "fatal"})
  BY DEF Somebody
<1>3. kind = "integrity" => "n" \in Names(kind) /\ "n_dif" \in Names(kind)
  BY DEF Names
<1>4. QED
  BY <1>1, <1>2, <1>3 DEF VerPart, SameVer

-----------------------------------------------------------------------------
(* Suspend and resume                                                      *)

Using == {"suspend", "wipe", "unsuspend", "set key", "resume"}

(* What holds where a volume is suspended or resumed.                      *)
LEMMA UserFacts ==
    ASSUME ActivationInv, NEW p \in Proc, job[p].at \in Using
    PROVE  /\ job[p].at # "idle" /\ JobOK(job[p], kind, via) /\ Free(job[p].at) /\ kind \in {"crypt", "integrity"}
           /\ via \in BOOLEAN /\ locked \in BOOLEAN /\ (Calmer => Calm) /\ DmOK(dm, kind, via)
           /\ (used => "n" \in DOMAIN dm)
           /\ job[p].op \in {"suspend", "resume"}
           /\ job[p].at \in {"suspend", "wipe", "unsuspend"} => job[p].op = "suspend"
           /\ job[p].at \in {"set key", "resume"} => job[p].op = "resume"
           /\ "failed" \in PlacesOf(job[p].op)
           /\ \A x : job[p].at \notin LoadedAt(x) /\ (x # "n" => job[p].at \notin SuspendedAt(x))
           /\ job[p].at \notin Owning \cup {"resume n", "fatal"}
<1>1. job[p].at # "idle"
  BY DEF Using
<1>2. JobOK(job[p], kind, via)
  BY <1>1, Here
<1>3. /\ job[p].at \in {"suspend", "wipe", "unsuspend"} => job[p].op = "suspend"
      /\ job[p].at \in {"set key", "resume"} => job[p].op = "resume"
  BY <1>2, CallAt
<1>4. job[p].op \in {"suspend", "resume"}
  BY <1>3 DEF Using
<1>5. kind # "tcrypt" /\ kind \in {"crypt", "integrity", "tcrypt"}
  BY <1>2, <1>4, Parts DEF JobOK
<1>6. Free(job[p].at)
  BY DEF Using, Free, Working, Staging, Owning
<1>7. "failed" \in PlacesOf(job[p].op)
  BY <1>4 DEF PlacesOf
<1>8. /\ \A x : job[p].at \notin LoadedAt(x) /\ (x # "n" => job[p].at \notin SuspendedAt(x))
      /\ job[p].at \notin Owning \cup {"resume n", "fatal"}
  BY DEF Using, LoadedAt, SuspendedAt, Owning
<1>9. /\ via \in BOOLEAN /\ locked \in BOOLEAN /\ (Calmer => Calm) /\ DmOK(dm, kind, via)
      /\ (used => "n" \in DOMAIN dm)
  BY Parts
<1>10. QED
  BY <1>1, <1>2, <1>3, <1>4, <1>5, <1>6, <1>7, <1>8, <1>9

(* And what more holds if the volume is there.                             *)
LEMMA UserFinds ==
    ASSUME ActivationInv, NEW p \in Proc, job[p].at \in Using, "n" \in DOMAIN dm
    PROVE  /\ \A q \in Proc \ {p} : Free(job[q].at)
           /\ DOMAIN dm = Names(kind)
           /\ Calm => \A x \in DOMAIN dm : dm[x].load = NoTable
           /\ Calm => (locked <=> dm["n"].live.what = "crypt" /\ dm["n"].live.key = "wiped")
           /\ Calmer => \A x \in DOMAIN dm : x # "n" => ~dm[x].susp
<1>1. /\ job[p].at # "idle" /\ job[p].op \in {"suspend", "resume"} /\ kind \in {"crypt", "integrity"}
      /\ \A x : job[p].at \notin LoadedAt(x) /\ (x # "n" => job[p].at \notin SuspendedAt(x))
  BY UserFacts
<1>2. \A q \in Proc \ {p} : Free(job[q].at)
  BY <1>1, OthersOfUser
<1>3. DOMAIN dm = Names(kind)
  BY Parts, WholeStack
<1>4. Calm => \A x \in DOMAIN dm : dm[x].load # NoTable => job[p].at \in LoadedAt(x)
  BY <1>2, AloneIs
<1>5. Calmer => \A x \in DOMAIN dm : (dm[x].susp /\ x # "n") => job[p].at \in SuspendedAt(x)
  BY <1>2, AloneIs
<1>6. Calm => (locked <=> dm["n"].live.what = "crypt" /\ dm["n"].live.key = "wiped")
  BY Parts DEF LockPart
<1>7. QED
  BY <1>1, <1>2, <1>3, <1>4, <1>5, <1>6

(* A step of suspend or resume that changes the volume.                    *)
LEMMA UserChanges ==
    ASSUME ActivationInv, NEW p \in Proc, job[p].at \in Using, "n" \in DOMAIN dm, NEW a, Go(p, a),
           UNCHANGED <<kind, via, used, deaths>>, locked' \in BOOLEAN, RingPart(job', via, ring', inring', last'),
           a \in PlacesOf(job[p].op), Free(a), kind \in KindsAt(a),
           DmOK(dm', kind, via), DOMAIN dm' = DOMAIN dm, Same(dm', dm, DOMAIN dm \ {"n"}),
           dm'["n"].load \in {NoTable, dm["n"].load},
           Calm => (locked' <=> dm'["n"].live.what = "crypt" /\ dm'["n"].live.key = "wiped"),
           Calmer => (dm'["n"].susp => a \in SuspendedAt("n")),
           Calmer => SameVer
    PROVE  ActivationInv'
<1>1. /\ job[p].at # "idle" /\ (Calmer => Calm) /\ job[p].at \notin {"resume n", "fatal"}
  BY UserFacts
<1>2. /\ \A q \in Proc \ {p} : Free(job[q].at)
      /\ DOMAIN dm = Names(kind)
      /\ Calm => \A x \in DOMAIN dm : dm[x].load = NoTable
      /\ Calmer => \A x \in DOMAIN dm : x # "n" => ~dm[x].susp
  BY UserFinds
<1>3. a \notin Working /\ a # "query" /\ a \notin Owning
  BY DEF Free
<1>4. ReloadOK(a, dm', kind) /\ OwnerOK(a, dm', kind)
  BY <1>3 DEF ReloadOK, OwnerOK, Working, Staging
<1>5. \A x \in DOMAIN dm : x # "n" => dm'[x] = dm[x]
  BY DEF Same
<1>6. Calm => \A x \in DOMAIN dm' : dm'[x].load = NoTable
  BY <1>2, <1>5
<1>7. Calm => LockPart(dm', locked')
  BY <1>6 DEF LockPart
<1>8. Calmer => \A x \in DOMAIN dm' : dm'[x].susp =>
                        \/ x = "n" /\ locked'
                        \/ a \in SuspendedAt(x)
                        \/ \E q \in Proc \ {p} : job[q].at \in SuspendedAt(x)
  BY <1>2, <1>5
<1>9. QED
  BY <1>1, <1>2, <1>3, <1>4, <1>6, <1>7, <1>8, ChangesGo

(* dm_suspend_device suspends,                                             *)
LEMMA SuspendDeviceStep ==
    ASSUME ActivationInv, NEW p \in Proc, SuspendDevice(p)
    PROVE  ActivationInv'
<1>1. /\ job[p].at = "suspend" /\ UNCHANGED <<kind, via, used, deaths, ring, inring, last, locked>>
      /\ \/ "n" \in DOMAIN dm /\ dm' = SuspendedNow(dm, "n") /\ Go(p, "wipe")
         \/ dm' = dm /\ Go(p, "failed")
  BY DEF SuspendDevice, DmCall, At, Rest, KeepKeyring, Exists
<1>2. job[p].at \in Using
  BY <1>1 DEF Using
<1>3. /\ job[p].at # "idle" /\ kind \in {"crypt", "integrity"} /\ job[p].op = "suspend"
      /\ "failed" \in PlacesOf(job[p].op)
      /\ locked \in BOOLEAN /\ DmOK(dm, kind, via)
  BY <1>1, <1>2, UserFacts
<1>4. /\ Free("wipe") /\ Free("failed") /\ kind \in KindsAt("wipe") /\ kind \in KindsAt("failed")
      /\ Light("suspend")
  <2>1. Free("wipe") /\ Free("failed") /\ Light("suspend")
    BY FreeAre, LightAre
  <2>2. QED
    BY <1>3, <2>1 DEF KindsAt, Staging
<1>5. CASE "n" \in DOMAIN dm /\ dm' = SuspendedNow(dm, "n") /\ Go(p, "wipe")
  <2>1. DmOK(dm', kind, via) /\ Has(dm', dm, "n", dm["n"].live, dm["n"].load, TRUE)
    BY <1>3, <1>5, SuspendedIs
  <2>2. /\ DOMAIN dm' = DOMAIN dm /\ Same(dm', dm, DOMAIN dm \ {"n"})
        /\ dm'["n"].live = dm["n"].live /\ dm'["n"].load = dm["n"].load
    BY <2>1 DEF Has
  <2>3. SameVer
    BY <1>5, <2>2 DEF SameVer, Same
  <2>4. Calm => (locked <=> dm["n"].live.what = "crypt" /\ dm["n"].live.key = "wiped")
    BY <1>2, <1>5, UserFinds
  <2>5. "wipe" \in PlacesOf(job[p].op) /\ "wipe" \in SuspendedAt("n")
    BY <1>3 DEF PlacesOf, SuspendedAt
  <2>6. RingPart(job', via, ring', inring', last')
    BY <1>1, <1>3, <1>5, RingGoes
  <2>7. QED
    BY <1>1, <1>2, <1>3, <1>4, <1>5, <2>1, <2>2, <2>3, <2>4, <2>5, <2>6, UserChanges
<1>6. CASE dm' = dm /\ Go(p, "failed")
  <2>1. RingPart(job', via, ring', inring', last')
    BY <1>1, <1>3, <1>6, RingGoes
  <2>2. QED
    BY <1>1, <1>3, <1>4, <1>6, <2>1, LightGoes
<1>7. QED
  BY <1>1, <1>5, <1>6

(* Unsuspend and ResumeDevice: a resume that is not refused keeps a key,   *)
(* and one that is refused finds a volume that is locked.                  *)
LEMMA UserResumes ==
    ASSUME ActivationInv, NEW p \in Proc, job[p].at \in {"unsuspend", "resume"},
           UNCHANGED <<kind, via, used, deaths, ring, inring, last, locked>>,
           NEW a \in {"done", "failed"}, a \in PlacesOf(job[p].op), Go(p, a),
           \/ "n" \in DOMAIN dm /\ HasKey("n") /\ dm' = Resumed(dm, "n")
           \/ a = "failed" /\ dm' = dm /\ (~("n" \in DOMAIN dm /\ HasKey("n")) \/ <<kind, "resume">> \in FaultsAt)
    PROVE  ActivationInv'
<1>1. job[p].at \in Using
  BY DEF Using
<1>2. /\ job[p].at # "idle" /\ kind \in {"crypt", "integrity"} /\ locked \in BOOLEAN
      /\ DmOK(dm, kind, via) /\ (Calmer => Calm)
      /\ \A x : job[p].at \notin LoadedAt(x) /\ (x # "n" => job[p].at \notin SuspendedAt(x))
      /\ job[p].at \notin Owning \cup {"resume n", "fatal"}
  BY <1>1, UserFacts
<1>3. Free(a) /\ kind \in KindsAt(a) /\ a # "idle"
  BY <1>2, FreeAre DEF KindsAt, Staging
<1>4. RingPart(job', via, ring', inring', last')
  BY <1>2, <1>3, RingGoes
<1>5. CASE "n" \in DOMAIN dm /\ HasKey("n") /\ dm' = Resumed(dm, "n")
  <2>1. dm["n"].load # NoTable \/ (dm["n"].live.what = "crypt" => dm["n"].live.key # "wiped")
    BY <1>5 DEF HasKey
  <2>2. DmOK(dm', kind, via) /\ Has(dm', dm, "n", Swapped(dm["n"]), NoTable, FALSE)
        /\ ~(Swapped(dm["n"]).what = "crypt" /\ Swapped(dm["n"]).key = "wiped")
    BY <1>2, <1>5, <2>1, ResumedIs
  <2>3. /\ DOMAIN dm' = DOMAIN dm /\ Same(dm', dm, DOMAIN dm \ {"n"})
        /\ dm'["n"].live = Swapped(dm["n"]) /\ dm'["n"].load = NoTable /\ ~dm'["n"].susp
    BY <2>2 DEF Has
  <2>4. /\ Calm => \A x \in DOMAIN dm : dm[x].load = NoTable
        /\ Calm => (locked <=> dm["n"].live.what = "crypt" /\ dm["n"].live.key = "wiped")
    BY <1>1, <1>5, UserFinds
  <2>5. Calm => dm'["n"].live = dm["n"].live
    BY <1>5, <2>3, <2>4 DEF Swapped
  <2>6. Calm => SameVer
    BY <1>5, <2>3, <2>5 DEF SameVer, Same
  <2>7. Calm => (locked' <=> dm'["n"].live.what = "crypt" /\ dm'["n"].live.key = "wiped")
    BY <2>4, <2>5
  <2>8. QED
    BY <1>1, <1>2, <1>3, <1>4, <1>5, <2>2, <2>3, <2>6, <2>7, UserChanges
<1>6. CASE a = "failed" /\ dm' = dm /\ (~("n" \in DOMAIN dm /\ HasKey("n")) \/ <<kind, "resume">> \in FaultsAt)
  <2>1. ASSUME Calmer, NEW x \in DOMAIN dm, dm[x].susp, job[p].at \in SuspendedAt(x)
        PROVE  x = "n" /\ locked
    <3>1. x = "n"
      BY <1>2, <2>1
    <3>2. <<kind, "resume">> \notin FaultsAt
      BY <1>2, <2>1 DEF Calmer, NotUndone
    <3>3. ~HasKey("n")
      BY <1>6, <2>1, <3>1, <3>2
    <3>4. dm["n"].live.what = "crypt" /\ dm["n"].live.key = "wiped"
      BY <3>3 DEF HasKey
    <3>5. Calm => (locked <=> dm["n"].live.what = "crypt" /\ dm["n"].live.key = "wiped")
      BY <1>1, <2>1, <3>1, UserFinds
    <3>6. QED
      BY <1>2, <2>1, <3>1, <3>4, <3>5
  <2>2. a \notin Working /\ a \notin Owning /\ ReloadOK(a, dm, kind) /\ OwnerOK(a, dm, kind)
    BY <1>6 DEF ReloadOK, OwnerOK, Working, Staging, Owning
  <2>3. QED
    BY <1>2, <1>3, <1>4, <1>6, <2>1, <2>2, Goes
<1>7. QED
  BY <1>5, <1>6

(* The device is resumed when its key could not be wiped.                  *)
LEMMA UnsuspendStep ==
    ASSUME ActivationInv, NEW p \in Proc, Unsuspend(p)
    PROVE  ActivationInv'
<1>1. /\ job[p].at = "unsuspend" /\ UNCHANGED <<kind, via, used, deaths, ring, inring, last, locked>>
      /\ Go(p, "failed")
      /\ \/ "n" \in DOMAIN dm /\ HasKey("n") /\ dm' = Resumed(dm, "n")
         \/ dm' = dm /\ (~("n" \in DOMAIN dm /\ HasKey("n")) \/ <<kind, "resume">> \in FaultsAt)
  BY DEF Unsuspend, DmCall, At, Rest, KeepKeyring, Exists, Fault
<1>2. "failed" \in PlacesOf(job[p].op)
  BY <1>1, UserFacts DEF Using
<1>3. QED
  BY <1>1, <1>2, UserResumes

(* dm_resume_and_reinstate_key resumes the volume.                         *)
LEMMA ResumeDeviceStep ==
    ASSUME ActivationInv, NEW p \in Proc, ResumeDevice(p)
    PROVE  ActivationInv'
<1>1. /\ job[p].at = "resume" /\ UNCHANGED <<kind, via, used, deaths, ring, inring, last, locked>>
      /\ \/ "n" \in DOMAIN dm /\ HasKey("n") /\ dm' = Resumed(dm, "n") /\ Go(p, "done")
         \/ dm' = dm /\ Go(p, "failed") /\ (~("n" \in DOMAIN dm /\ HasKey("n")) \/ <<kind, "resume">> \in FaultsAt)
  BY DEF ResumeDevice, DmCall, At, Rest, KeepKeyring, Exists, Fault
<1>2. job[p].op = "resume"
  BY <1>1, UserFacts DEF Using
<1>3. "failed" \in PlacesOf(job[p].op) /\ "done" \in PlacesOf(job[p].op)
  BY <1>2 DEF PlacesOf
<1>4. CASE "n" \in DOMAIN dm /\ HasKey("n") /\ dm' = Resumed(dm, "n") /\ Go(p, "done")
  BY <1>1, <1>3, <1>4, UserResumes
<1>5. CASE dm' = dm /\ Go(p, "failed") /\ (~("n" \in DOMAIN dm /\ HasKey("n")) \/ <<kind, "resume">> \in FaultsAt)
  BY <1>1, <1>3, <1>5, UserResumes
<1>6. QED
  BY <1>1, <1>4, <1>5

(* The key is given or taken away while the volume is suspended: nothing   *)
(* else about its table changes.                                           *)
LEMMA KeyChanges ==
    ASSUME ActivationInv, NEW p \in Proc, job[p].at \in Using, MayChangeKey("n"),
           NEW c \in {"vk", "twin", "wiped"}, NEW b \in BOOLEAN, (c \in {"vk", "twin"} => b = via), (c = "wiped" => ~b),
           dm' = Keyed(dm, c, b)
    PROVE  /\ "n" \in DOMAIN dm /\ DmOK(dm', kind, via) /\ DOMAIN dm' = DOMAIN dm
           /\ dm'["n"].live.what = "crypt" /\ dm'["n"].live.key = c /\ dm'["n"].load = dm["n"].load
           /\ Same(dm', dm, DOMAIN dm \ {"n"}) /\ SameVer
<1>1. "n" \in DOMAIN dm /\ dm["n"].live.what = "crypt" /\ dm["n"].susp
  BY DEF MayChangeKey, IsCrypt, Suspended, Exists
<1>2. /\ DmOK(dm', kind, via) /\ DOMAIN dm' = DOMAIN dm
      /\ dm'["n"].live.what = "crypt" /\ dm'["n"].live.key = c /\ dm'["n"].live # ErrorTable
      /\ dm'["n"].live.ver = dm["n"].live.ver /\ dm'["n"].load = dm["n"].load
      /\ Same(dm', dm, DOMAIN dm \ {"n"})
  BY <1>1, KeyIs
<1>3. dm["n"].live # ErrorTable
  BY <1>1, LiveIs
<1>4. SameVer
  BY <1>2, <1>3 DEF SameVer, Same
<1>5. QED
  BY <1>1, <1>2, <1>4

(* and wipes the key: no table has it, nor has the keyring if it came      *)
(* from there.                                                             *)
LEMMA WipeKeyStep ==
    ASSUME ActivationInv, NEW p \in Proc, WipeKey(p)
    PROVE  ActivationInv'
<1>1. /\ job[p].at = "wipe" /\ UNCHANGED <<kind, via, used, deaths>>
      /\ \/ /\ MayChangeKey("n") /\ dm' = KeyWiped("n") /\ locked' = TRUE /\ End(p, "suspended")
            /\ IF job[p].key = "described" THEN DropKeyring(p) ELSE KeepKeyring
         \/ Go(p, "unsuspend") /\ UNCHANGED <<dm, last, locked, ring, inring>>
  BY DEF WipeKey, At, Rest, KeepKeyring
<1>2. job[p].at \in Using
  BY <1>1 DEF Using
<1>3. /\ job[p].at # "idle" /\ kind \in {"crypt", "integrity"} /\ job[p].op = "suspend"
      /\ locked \in BOOLEAN
      /\ JobOK(job[p], kind, via) /\ via \in BOOLEAN /\ (Calmer => Calm) /\ (used => "n" \in DOMAIN dm)
      /\ \A x : job[p].at \notin LoadedAt(x) /\ (x # "n" => job[p].at \notin SuspendedAt(x))
      /\ job[p].at \notin Owning \cup {"resume n", "fatal"}
  BY <1>1, <1>2, UserFacts
<1>4. CASE Go(p, "unsuspend") /\ UNCHANGED <<dm, last, locked, ring, inring>>
  <2>1. RingPart(job', via, ring', inring', last')
    BY <1>3, <1>4, RingGoes
  <2>2. /\ "unsuspend" \in PlacesOf(job[p].op) /\ kind \in KindsAt("unsuspend")
        /\ "unsuspend" \in SuspendedAt("n")
        /\ "unsuspend" \notin Working /\ "unsuspend" \notin Owning
        /\ ReloadOK("unsuspend", dm, kind) /\ OwnerOK("unsuspend", dm, kind)
    BY <1>3 DEF PlacesOf, KindsAt, SuspendedAt, ReloadOK, OwnerOK, Working, Staging, Owning
  <2>3. QED
    BY <1>1, <1>3, <1>4, <2>1, <2>2, Goes
<1>5. CASE /\ MayChangeKey("n") /\ dm' = KeyWiped("n") /\ locked' = TRUE /\ End(p, "suspended")
           /\ IF job[p].key = "described" THEN DropKeyring(p) ELSE KeepKeyring
  <2>1. dm' = Keyed(dm, "wiped", FALSE)
    BY <1>5 DEF KeyWiped, Keyed
  <2>2. /\ "n" \in DOMAIN dm /\ DmOK(dm', kind, via) /\ DOMAIN dm' = DOMAIN dm
        /\ dm'["n"].live.what = "crypt" /\ dm'["n"].live.key = "wiped" /\ dm'["n"].load = dm["n"].load
        /\ Same(dm', dm, DOMAIN dm \ {"n"}) /\ SameVer
    BY <1>2, <1>5, <2>1, KeyChanges
  <2>3. /\ \A q \in Proc \ {p} : Free(job[q].at)
        /\ DOMAIN dm = Names(kind)
        /\ Calm => \A x \in DOMAIN dm : dm[x].load = NoTable
        /\ Calmer => \A x \in DOMAIN dm : x # "n" => ~dm[x].susp
    BY <1>2, <2>2, UserFinds
  <2>4. \A x \in DOMAIN dm : x # "n" => dm'[x] = dm[x]
    BY <2>2 DEF Same
  <2>5. Calm => \A x \in DOMAIN dm' : dm'[x].load = NoTable
    BY <2>2, <2>3, <2>4
  <2>6. Calm => LockPart(dm', locked')
    BY <1>5, <2>2, <2>5 DEF LockPart
  <2>7. Calmer => \A x \in DOMAIN dm' : dm'[x].susp => x = "n" /\ locked'
    BY <1>5, <2>2, <2>3, <2>4
  <2>8. RingPart(job', via, ring', inring', last')
    <3>1. via => job[p].key = "described"
      BY <1>3 DEF JobOK
    <3>2. QED
      BY <1>3, <1>5, <3>1, RingEnds
  <2>9. job' = [job EXCEPT ![p] = Idle] /\ \A q \in Proc : q # p => job'[q] = job[q]
    BY <1>5, EndIs DEF ActivationInv
  <2>10. Calmer => VerPart(dm', job', kind)
    BY <1>3, <2>2, <2>9, VerStays
  <2>11. QED
    BY <1>1, <1>3, <1>5, <2>2, <2>3, <2>5, <2>6, <2>7, <2>8, <2>9, <2>10, Changes
<1>6. QED
  BY <1>1, <1>4, <1>5

(* dm_resume_and_reinstate_key sets the key again.                         *)
LEMMA SetKeyStep ==
    ASSUME ActivationInv, NEW p \in Proc, SetKey(p)
    PROVE  ActivationInv'
<1>1. /\ job[p].at = "set key" /\ UNCHANGED <<kind, via, used, deaths, last>>
      /\ IF via THEN LoadKeyring(p) ELSE KeepKeyring
      /\ \/ MayChangeKey("n") /\ dm' = KeySet("n", job[p].key, via) /\ locked' = FALSE /\ Go(p, "resume")
         \/ Go(p, "failed") /\ UNCHANGED <<dm, locked>>
  BY DEF SetKey, At, Rest
<1>2. job[p].at \in Using
  BY <1>1 DEF Using
<1>3. /\ job[p].at # "idle" /\ kind \in {"crypt", "integrity"} /\ job[p].op = "resume" /\ via \in BOOLEAN
      /\ "failed" \in PlacesOf(job[p].op) /\ job[p].key \in {"vk", "twin"}
  <2>1. /\ job[p].at # "idle" /\ kind \in {"crypt", "integrity"} /\ job[p].op = "resume" /\ via \in BOOLEAN
        /\ "failed" \in PlacesOf(job[p].op) /\ JobOK(job[p], kind, via)
    BY <1>1, <1>2, UserFacts
  <2>2. QED
    BY <2>1 DEF JobOK
<1>4. /\ Free("resume") /\ Free("failed") /\ kind \in KindsAt("resume") /\ kind \in KindsAt("failed")
      /\ Light("set key")
  <2>1. Free("resume") /\ Free("failed") /\ Light("set key")
    BY FreeAre, LightAre
  <2>2. QED
    BY <1>3, <2>1 DEF KindsAt, Staging
<1>5. CASE MayChangeKey("n") /\ dm' = KeySet("n", job[p].key, via) /\ locked' = FALSE /\ Go(p, "resume")
  <2>1. dm' = Keyed(dm, job[p].key, via)
    BY <1>5 DEF KeySet, Keyed
  <2>2. /\ "n" \in DOMAIN dm /\ DmOK(dm', kind, via) /\ DOMAIN dm' = DOMAIN dm
        /\ dm'["n"].live.what = "crypt" /\ dm'["n"].live.key \in {"vk", "twin"} /\ dm'["n"].load = dm["n"].load
        /\ Same(dm', dm, DOMAIN dm \ {"n"}) /\ SameVer
    BY <1>2, <1>3, <1>5, <2>1, KeyChanges
  <2>3. "resume" \in PlacesOf(job[p].op) /\ "resume" \in SuspendedAt("n")
    BY <1>3 DEF PlacesOf, SuspendedAt
  <2>4. RingPart(job', via, ring', inring', last')
    BY <1>1, <1>3, <1>5, RingLoads
  <2>5. locked' \in BOOLEAN /\ ~locked'
    BY <1>5
  <2>6. QED
    BY <1>1, <1>2, <1>3, <1>4, <1>5, <2>2, <2>3, <2>4, <2>5, UserChanges
<1>6. CASE Go(p, "failed") /\ UNCHANGED <<dm, locked>>
  <2>1. RingPart(job', via, ring', inring', last')
    BY <1>1, <1>3, <1>6, RingLoads
  <2>2. QED
    BY <1>1, <1>3, <1>4, <1>6, <2>1, LightGoes
<1>7. QED
  BY <1>1, <1>5, <1>6

-----------------------------------------------------------------------------
(* The invariant                                                           *)

(* A call that begins.                                                     *)
LEMMA CallHolds ==
    ASSUME ActivationInv, ~careless, NEW p \in Proc, Call(p)
    PROVE  ActivationInv'
  BY ActivateBegins, ResizeBegins, SuspendBegins, ResumeBegins, CloseBegins DEF Call

(* A step of a call.                                                       *)
LEMMA StepHolds ==
    ASSUME ActivationInv, NEW p \in Proc, Step(p)
    PROVE  ActivationInv'
<1>1. CASE OpenKey(p) \/ check_devices(p) \/ Failed(p) \/ Succeeded(p) \/ Deactivated(p) \/ QueryRefresh(p)
  BY <1>1, OpenKeyStep, CheckStep, FailedStep, SucceededStep, DeactivatedStep, QueryStep
<1>2. CASE CreateDevice(p) \/ Rollback(p) \/ RemoveTop(p) \/ RemoveBelow(p)
  BY <1>2, CreateStep, RollbackStep, RemoveTopStep, RemoveBelowStep
<1>3. CASE LoadTable(p) \/ SwapTable(p) \/ LoadIntegrity(p) \/ LoadCrypt(p) \/ SuspendCrypt(p) \/ SuspendIntegrity(p)
  BY <1>3, LoadTableStep, SwapTableStep, LoadIntegrityStep, LoadCryptStep, SuspendCryptStep, SuspendIntegrityStep
<1>4. CASE ResumeIntegrity(p) \/ ResumeIntegrityStuck(p) \/ ResumeCrypt(p) \/ ClearTables(p) \/ BurnTables(p)
  BY <1>4, ResumeIntegrityStep, StuckStep, ResumeCryptStep, ClearStep, BurnStep
<1>5. CASE SuspendDevice(p) \/ WipeKey(p) \/ Unsuspend(p) \/ SetKey(p) \/ ResumeDevice(p)
  BY <1>5, SuspendDeviceStep, WipeKeyStep, UnsuspendStep, SetKeyStep, ResumeDeviceStep
<1>6. QED
  BY <1>1, <1>2, <1>3, <1>4, <1>5 DEF Step

(* Every step of a careful system keeps the invariant.                     *)
LEMMA NextHolds ==
    ASSUME ActivationInv, ~careless, [Next]_vars
    PROVE  ActivationInv'
<1>1. CASE Mount
  BY <1>1, SameButUsed DEF Mount, IsCrypt, Exists
<1>2. CASE Umount
  BY <1>2, SameButUsed DEF Umount
<1>3. CASE UNCHANGED vars
  <2>1. /\ UNCHANGED <<dm, kind, via, job, ring, inring, last, locked, deaths>>
        /\ (used' => "n" \in DOMAIN dm)
    BY <1>3, Parts DEF vars
  <2>2. QED
    BY <2>1, SameButUsed
<1>4. CASE \E p \in Proc : Call(p) \/ Step(p) \/ Die(p)
  BY <1>4, CallHolds, StepHolds, DieStep
<1>5. QED
  BY <1>1, <1>2, <1>3, <1>4 DEF Next

-----------------------------------------------------------------------------
(* What the invariant gives                                                *)

(* A locked volume has no key in any table.                                *)
LEMMA GoneIs ==
    ASSUME ActivationInv, <<"crypt", "resume">> \notin FaultsAt
    PROVE  KeysGone
<1>1. SuspendLocks
  <2>1. SUFFICES ASSUME locked, IsCrypt("n"), deaths = 0
                 PROVE  dm["n"].susp /\ dm["n"].live.key = "wiped" /\ dm["n"].load = NoTable
    BY DEF SuspendLocks
  <2>2. LockPart(dm, locked)
    BY <2>1, Parts DEF Calm
  <2>3. "n" \in DOMAIN dm /\ dm["n"].live.what = "crypt"
    BY <2>1 DEF IsCrypt, Exists
  <2>4. dm["n"].live.key = "wiped" /\ dm["n"].load = NoTable
    BY <2>1, <2>2, <2>3 DEF LockPart
  <2>5. QED
    BY <2>3, <2>4, LiveIs
<1>2. NoKeyLeftBehind
  BY DEF NoKeyLeftBehind, ActivationInv, RingPart
<1>3. QED
  BY <1>1, <1>2 DEF KeysGone

(* A device is over devices that are there.                                *)
LEMMA TypeIs ==
    ASSUME ActivationInv
    PROVE  ActivationTypeOK
<1>1. /\ kind \in {"crypt", "integrity", "tcrypt"} /\ DOMAIN dm \in Prefixes(kind) /\ locked \in BOOLEAN
      /\ (used => "n" \in DOMAIN dm)
  BY Parts
<1>2. DOMAIN dm \subseteq {"n", "n_dif", "n_1", "n_2"}
  BY <1>1, WholeStack DEF Name
<1>3. ASSUME NEW d \in DOMAIN dm
      PROVE  dm[d].live.over \cup dm[d].load.over \subseteq {"data"} \cup DOMAIN dm
  <2>1. Under(kind, d) \subseteq {"data"} \cup DOMAIN dm
    <3>1. CASE kind = "crypt"
      BY <1>1, <3>1 DEF Under, Prefixes, Names
    <3>2. CASE kind = "integrity"
      BY <1>1, <3>2 DEF Under, Prefixes, Names
    <3>3. CASE kind = "tcrypt"
      BY <1>1, <3>3 DEF Under, Prefixes, Names
    <3>4. QED
      BY <1>1, <3>1, <3>2, <3>3
  <2>2. QED
    BY <2>1, OverIs
<1>4. ring \in [Proc -> {"none", "vk", "twin"}] /\ inring \in [Proc -> BOOLEAN]
  BY DEF ActivationInv, RingPart
<1>5. QED
  BY <1>1, <1>2, <1>3, <1>4 DEF ActivationTypeOK, Exists

(* The names of the stack.                                                 *)
LEMMA StackNames ==
    ASSUME kind \in {"crypt", "integrity", "tcrypt"}
    PROVE  {Stack[i] : i \in DOMAIN Stack} = Names(kind)
<1>1. CASE kind = "crypt"
  BY <1>1, StackIs DEF Names
<1>2. CASE kind = "integrity"
  BY <1>2, StackIs DEF Names
<1>3. CASE kind = "tcrypt"
  BY <1>3, StackIs DEF Names
<1>4. QED
  BY <1>1, <1>2, <1>3

(* Nobody has anything half done when all are idle.                        *)
LEMMA NobodyIs ==
    ASSUME Quiet
    PROVE  \A x : /\ ~Somebody(job, LoadedAt(x)) /\ ~Somebody(job, SuspendedAt(x))
                  /\ ~Somebody(job, Owning) /\ ~Somebody(job, {"resume n", "fatal"})
<1>1. \A p \in Proc : job[p].at = "idle"
  BY DEF Quiet, Idle
<1>2. \A x : "idle" \notin LoadedAt(x) /\ "idle" \notin SuspendedAt(x) /\ "idle" \notin Owning
  BY DEF LoadedAt, SuspendedAt, Owning
<1>3. QED
  BY <1>1, <1>2 DEF Somebody

(* Then the stack is whole.                                                *)
LEMMA WholeIs ==
    ASSUME ActivationInv, FaultsAt \cap NotUndone = {}
    PROVE  StackWhole
<1>1. SUFFICES ASSUME Quiet, deaths = 0
               PROVE  /\ DOMAIN dm \in {{}, {Stack[i] : i \in DOMAIN Stack}}
                      /\ \A d, e \in DOMAIN dm :
                            /\ dm[d].load = NoTable
                            /\ dm[d].susp => (d = "n" /\ locked)
                            /\ kind = "integrity" =>
                                  \/ dm[d].live = ErrorTable /\ dm[e].live = ErrorTable
                                  \/ /\ dm[d].live # ErrorTable /\ dm[e].live # ErrorTable
                                     /\ dm[d].live.ver = dm[e].live.ver
  BY DEF StackWhole
<1>2. Calmer
  BY <1>1 DEF Calmer
<1>3. /\ kind \in {"crypt", "integrity", "tcrypt"} /\ LoadPart(dm, job) /\ SuspPart(dm, job, locked)
      /\ WholePart(dm, job, kind) /\ VerPart(dm, job, kind)
  BY <1>2, Parts
<1>4. \A x : /\ ~Somebody(job, LoadedAt(x)) /\ ~Somebody(job, SuspendedAt(x))
             /\ ~Somebody(job, Owning) /\ ~Somebody(job, {"resume n", "fatal"})
  BY <1>1, NobodyIs
<1>5. DOMAIN dm \in {{}, Names(kind)}
  BY <1>3, <1>4 DEF WholePart
<1>6. \A d \in DOMAIN dm : dm[d].load = NoTable /\ (dm[d].susp => d = "n" /\ locked)
  BY <1>3, <1>4 DEF LoadPart, SuspPart
<1>7. ASSUME NEW d \in DOMAIN dm, NEW e \in DOMAIN dm, kind = "integrity"
      PROVE  \/ dm[d].live = ErrorTable /\ dm[e].live = ErrorTable
             \/ dm[d].live # ErrorTable /\ dm[e].live # ErrorTable /\ dm[d].live.ver = dm[e].live.ver
  <2>1. DOMAIN dm = Names(kind) /\ Names(kind) = {"n_dif", "n"}
    BY <1>5, <1>7 DEF Names
  <2>2. \/ dm["n"].live = ErrorTable /\ dm["n_dif"].live = ErrorTable
        \/ dm["n"].live # ErrorTable /\ dm["n_dif"].live # ErrorTable /\ dm["n"].live.ver = dm["n_dif"].live.ver
    BY <1>3, <1>4, <1>7, <2>1 DEF VerPart
  <2>3. QED
    BY <1>7, <2>1, <2>2
<1>8. DOMAIN dm \in {{}, {Stack[i] : i \in DOMAIN Stack}}
  BY <1>3, <1>5, StackNames
<1>9. QED
  BY <1>6, <1>7, <1>8

-----------------------------------------------------------------------------
(* The key of a volume that runs, also where users reload a volume while   *)
(* others work on it: every table has a key of the volume, or was wiped    *)
(* and is suspended, and so has every call that will load one or set one.  *)

Fine(c, v) ==
    \/ c = "vk"
    \/ c = "twin" /\ (("refresh" \in Twins /\ v) \/ "resume" \in Twins)
HasFine(t, v) == t.what = "crypt" => Fine(t.key, v) /\ (t.desc => v)
HasWiped(t) == t.what = "crypt" /\ t.key = "wiped"
Good(e, x, v) ==
    /\ e \in Devices
    /\ HasFine(e.live, v) \/ (HasWiped(e.live) /\ ~e.live.desc /\ e.susp /\ x = "n")
    /\ HasFine(e.load, v)
DmKeys(d, v) == d = [x \in DOMAIN d |-> d[x]] /\ \A x \in DOMAIN d : Good(d[x], x, v)

(* What a call brings to the place where it uses the key.                  *)
KeyAt(a, c, v) ==
    /\ a \in {"open", "check", "query"} => (c \in {"vk", "twin"} /\ "refresh" \in Twins) \/ Fine(c, v)
    /\ a \in {"load", "load i", "load n", "set key"} => Fine(c, v)
JobKeys(j, v) ==
    /\ j = [p \in Proc |-> j[p]]
    /\ \A p \in Proc : j[p] # Idle => IsJob(j[p]) /\ KeyAt(j[p].at, j[p].key, v)
RingKeys(r, ir, v) ==
    /\ r = [p \in Proc |-> r[p]] /\ ir = [p \in Proc |-> ir[p]]
    /\ \A p \in Proc : ir[p] => Fine(r[p], v)

KeyInv ==
    /\ kind \in {"crypt", "integrity", "tcrypt"} /\ via \in BOOLEAN
    /\ DmKeys(dm, via) /\ JobKeys(job, via) /\ RingKeys(ring, inring, via)

(* One device changes.                                                     *)
LEMMA OneGood ==
    ASSUME NEW v, NEW d, DmKeys(d, v), NEW x \in DOMAIN d, NEW e, Good(e, x, v), NEW f, OnlyNew(f, d, x, e)
    PROVE  DmKeys(f, v)
  BY DEF DmKeys, OnlyNew

(* The change is of the form of an EXCEPT.                                 *)
LEMMA ExceptGood ==
    ASSUME NEW v, NEW d, DmKeys(d, v), NEW x \in DOMAIN d, NEW e, Good(e, x, v), NEW f, f = [d EXCEPT ![x] = e]
    PROVE  DmKeys(f, v)
<1>1. OnlyNew(f, d, x, e)
  BY DEF DmKeys, OnlyNew
<1>2. QED
  BY <1>1, OneGood

(* A device of parts that have their keys.                                 *)
LEMMA GoodDev ==
    ASSUME NEW v, NEW t \in Tables, NEW u \in Tables, NEW s \in BOOLEAN, NEW x, HasFine(u, v),
           HasFine(t, v) \/ (HasWiped(t) /\ ~t.desc /\ s /\ x = "n")
    PROVE  Good(Dev(t, u, s), x, v)
  BY DevIs DEF Good

(* The tables without a key.                                               *)
LEMMA PlainTables ==
    ASSUME NEW v
    PROVE  /\ HasFine(NoTable, v) /\ HasFine(ErrorTable, v) /\ NoTable \in Tables /\ ErrorTable \in Tables
           /\ \A w \in {"old", "new"} : HasFine(IntegrityTable(w), v) /\ IntegrityTable(w) \in Tables
<1>1. \A w \in {"old", "new"} : IntegrityTable(w) \in IntegrityTables
  BY DEF IntegrityTable, IntegrityTables
<1>2. QED
  BY <1>1, TableKinds DEF HasFine

(* A crypt table with a key of the volume.                                 *)
LEMMA NewCrypt ==
    ASSUME KeyInv, NEW x \in Names(kind) \ {"n_dif"}, NEW c, Fine(c, via), NEW w \in {"old", "new"}
    PROVE  HasFine(CryptTable(x, c, via, w), via) /\ CryptTable(x, c, via, w) \in Tables
<1>1. Over(x) \in SUBSET (Name \cup {"data"})
  <2>1. CASE kind = "crypt"
    BY <2>1, StackIs DEF Names, Name
  <2>2. CASE kind = "integrity"
    BY <2>2, StackIs DEF Names, Name
  <2>3. CASE kind = "tcrypt"
    BY <2>3, StackIs DEF Names, Name
  <2>4. QED
    BY <2>1, <2>2, <2>3 DEF KeyInv
<1> DEFINE t == CryptTable(x, c, via, w)
<1>2. c \in {"vk", "twin", "wiped"} /\ via \in BOOLEAN
  BY DEF Fine, KeyInv
<1>3. t = [over |-> Over(x), what |-> "crypt", key |-> c, desc |-> via, ver |-> w]
  BY DEF CryptTable
<1>4. t \in CryptTables /\ t.key = c /\ t.desc = via
  BY <1>1, <1>2, <1>3 DEF CryptTables
<1> HIDE DEF t
<1>5. HasFine(t, via) /\ t \in Tables
  BY <1>4, TableKinds DEF HasFine
<1>6. QED
  BY <1>5 DEF t

(* A table is loaded.                                                      *)
LEMMA KeysLoaded ==
    ASSUME NEW v, NEW d, DmKeys(d, v), NEW x \in DOMAIN d, NEW t \in Tables, HasFine(t, v)
    PROVE  DmKeys(Loaded(d, x, t), v)
<1> DEFINE e == Dev(d[x].live, t, d[x].susp)
<1>1. Good(d[x], x, v) /\ d[x] \in Devices
  BY DEF DmKeys, Good
<1>2. d[x].live \in Tables /\ d[x].susp \in BOOLEAN /\ [d[x] EXCEPT !.load = t] = e
  BY <1>1, DevOf
<1>3. Good(e, x, v)
  BY <1>1, <1>2, GoodDev DEF Good
<1>4. Loaded(d, x, t) = [d EXCEPT ![x] = e]
  BY <1>2 DEF Loaded
<1> HIDE DEF e
<1>5. QED
  BY <1>3, <1>4, ExceptGood

(* A device is suspended.                                                  *)
LEMMA KeysSuspended ==
    ASSUME NEW v, NEW d, DmKeys(d, v), NEW x \in DOMAIN d
    PROVE  DmKeys(SuspendedNow(d, x), v)
<1> DEFINE e == Dev(d[x].live, d[x].load, TRUE)
<1>1. Good(d[x], x, v) /\ d[x] \in Devices
  BY DEF DmKeys, Good
<1>2. d[x].live \in Tables /\ d[x].load \in Tables /\ [d[x] EXCEPT !.susp = TRUE] = e
  BY <1>1, DevOf
<1>3. Good(e, x, v)
  BY <1>1, <1>2, GoodDev DEF Good
<1>4. SuspendedNow(d, x) = [d EXCEPT ![x] = e]
  BY <1>2 DEF SuspendedNow
<1> HIDE DEF e
<1>5. QED
  BY <1>3, <1>4, ExceptGood

(* A device is resumed, with a table that has a key.                       *)
LEMMA KeysResumed ==
    ASSUME NEW v, NEW d, DmKeys(d, v), NEW x \in DOMAIN d,
           d[x].load # NoTable \/ ~HasWiped(d[x].live)
    PROVE  DmKeys(Resumed(d, x), v)
<1> DEFINE t == IF d[x].load = NoTable THEN d[x].live ELSE d[x].load
           e == Dev(t, NoTable, FALSE)
<1>1. Good(d[x], x, v) /\ d[x] \in Devices
  BY DEF DmKeys, Good
<1>2. d[x].live \in Tables /\ d[x].load \in Tables
  BY <1>1, DevOf
<1>3. HasFine(t, v) /\ t \in Tables
  BY <1>1, <1>2 DEF Good
<1>4. Resumed(d, x) = [d EXCEPT ![x] = e]
  BY DEF Resumed, Device, Dev
<1> HIDE DEF t
<1>5. Good(e, x, v)
  BY <1>3, GoodDev, PlainTables
<1> HIDE DEF e
<1>6. QED
  BY <1>4, <1>5, ExceptGood

(* A resume fails and loses the loaded table.                              *)
LEMMA KeysStuck ==
    ASSUME NEW v, NEW d, DmKeys(d, v), NEW x \in DOMAIN d
    PROVE  DmKeys(ResumeStuck(d, x), v)
<1> DEFINE e == Dev(d[x].live, NoTable, TRUE)
<1>1. Good(d[x], x, v) /\ d[x] \in Devices
  BY DEF DmKeys, Good
<1>2. d[x].live \in Tables /\ [[d[x] EXCEPT !.susp = TRUE] EXCEPT !.load = NoTable] = e
  BY <1>1, DevOf
<1>3. Good(e, x, v)
  BY <1>1, <1>2, GoodDev, PlainTables DEF Good
<1>4. ResumeStuck(d, x) = [d EXCEPT ![x] = e]
  BY <1>2 DEF ResumeStuck
<1> HIDE DEF e
<1>5. QED
  BY <1>3, <1>4, ExceptGood

(* A device is made,                                                       *)
LEMMA KeysCreated ==
    ASSUME NEW v, NEW d, DmKeys(d, v), NEW x, NEW t \in Tables, HasFine(t, v)
    PROVE  DmKeys(Created(d, x, t), v)
<1>1. Device(t) = Dev(t, NoTable, FALSE)
  BY DEF Device, Dev
<1>2. Good(Device(t), x, v)
  BY <1>1, GoodDev, PlainTables
<1>3. QED
  BY <1>2 DEF DmKeys, Created

(* or goes.                                                                *)
LEMMA KeysRemoved ==
    ASSUME NEW v, NEW d, DmKeys(d, v), NEW x
    PROVE  DmKeys(Removed(d, x), v)
  BY DEF DmKeys, Removed, Restrict

(* The key of a suspended device is given, or taken away.                  *)
LEMMA KeysKeyed ==
    ASSUME NEW v, NEW d, DmKeys(d, v), "n" \in DOMAIN d, d["n"].live.what = "crypt", d["n"].susp,
           NEW c, NEW b \in BOOLEAN, (Fine(c, v) /\ (b => v)) \/ (c = "wiped" /\ ~b),
           NEW f, f = Keyed(d, c, b)
    PROVE  DmKeys(f, v)
<1>1. Good(d["n"], "n", v) /\ d["n"] \in Devices /\ d["n"].live \in Tables
  BY DEF DmKeys, Good, Devices
<1>2. d["n"].live \in CryptTables
  BY <1>1, TableKinds DEF Tables
<1>3. c \in {"vk", "twin", "wiped"}
  BY DEF Fine
<1>4. f["n"].live.key = c /\ f["n"].live.desc = b /\ f["n"].live.what = "crypt"
  BY <1>1, <1>2 DEF CryptTables, Devices, Keyed
<1>5. f["n"].live \in CryptTables
  BY <1>1, <1>2, <1>3 DEF CryptTables, Devices, Keyed
<1>6. f["n"].load = d["n"].load /\ f["n"].susp = d["n"].susp
  BY <1>1, <1>2 DEF CryptTables, Devices, Keyed
<1>7. f["n"] \in Devices
  <2>1. f["n"].live \in Tables
    BY <1>5, TableKinds
  <2>2. QED
    BY <1>1, <1>2, <2>1 DEF Devices, Keyed
<1>8. /\ DOMAIN f = DOMAIN d /\ f = [y \in DOMAIN f |-> f[y]]
      /\ (\A y \in DOMAIN d : y # "n" => f[y] = d[y])
  BY DEF DmKeys, Keyed
<1>9. Good(f["n"], "n", v)
  BY <1>1, <1>4, <1>6, <1>7 DEF Good, HasFine, HasWiped
<1>10. QED
  BY <1>8, <1>9, OneGood DEF OnlyNew

(* The keyring of a process is kept, dropped, or has its key.              *)
LEMMA RingFine ==
    ASSUME KeyInv, NEW p \in Proc,
           \/ KeepKeyring \/ DropKeyring(p) \/ (LoadKeyring(p) /\ Fine(job[p].key, via))
    PROVE  RingKeys(ring', inring', via)
<1>1. RingKeys(ring, inring, via)
  BY DEF KeyInv
<1>2. CASE KeepKeyring \/ (DropKeyring(p) /\ ~via)
  BY <1>1, <1>2 DEF KeepKeyring, DropKeyring
<1>3. CASE DropKeyring(p) /\ via
  <2>1. ring' = [ring EXCEPT ![p] = "none"] /\ inring' = [inring EXCEPT ![p] = FALSE]
    BY <1>3 DEF DropKeyring
  <2>2. QED
    BY <1>1, <2>1 DEF RingKeys
<1>4. CASE LoadKeyring(p) /\ Fine(job[p].key, via)
  <2> DEFINE c == job[p].key
  <2>1. ring' = [ring EXCEPT ![p] = c] /\ inring' = [inring EXCEPT ![p] = TRUE] /\ Fine(c, via)
    BY <1>4 DEF LoadKeyring
  <2> HIDE DEF c
  <2>2. QED
    BY <1>1, <2>1 DEF RingKeys
<1>5. QED
  BY <1>2, <1>3, <1>4

(* A call goes on with what it brought.                                    *)
LEMMA KeyGoes ==
    ASSUME KeyInv, NEW p \in Proc, job[p].at # "idle", NEW a, Go(p, a), DmKeys(dm', via),
           UNCHANGED <<kind, via>>, RingKeys(ring', inring', via), KeyAt(a, job[p].key, via)
    PROVE  KeyInv'
<1>1. JobKeys(job, via)
  BY DEF KeyInv
<1>2. IsJob(job[p])
  BY <1>1 DEF JobKeys, Idle
<1> DEFINE j == [job[p] EXCEPT !.at = a]
<1>3. j.at = a /\ j.op = job[p].op /\ j.key = job[p].key /\ j = Job(j.at, j.op, j.key)
  BY <1>2 DEF IsJob, Job
<1>4. job' = [job EXCEPT ![p] = j]
  BY DEF Go
<1> HIDE DEF j
<1>5. IsJob(j) /\ KeyAt(j.at, j.key, via)
  BY <1>2, <1>3 DEF IsJob
<1>6. JobKeys(job', via)
  BY <1>1, <1>4, <1>5 DEF JobKeys
<1>7. QED
  BY <1>6 DEF KeyInv

(* A call returns.                                                         *)
LEMMA KeyEnds ==
    ASSUME KeyInv, NEW p \in Proc, NEW r, End(p, r), DmKeys(dm', via),
           UNCHANGED <<kind, via>>, RingKeys(ring', inring', via)
    PROVE  KeyInv'
<1>1. JobKeys(job, via) /\ job' = [job EXCEPT ![p] = Idle]
  BY DEF KeyInv, End
<1>2. JobKeys(job', via)
  BY <1>1 DEF JobKeys
<1>3. QED
  BY <1>2 DEF KeyInv

(* A call begins.                                                          *)
LEMMA KeyBegins ==
    ASSUME KeyInv, NEW p \in Proc, NEW a, NEW op, NEW c \in {"vk", "twin", "described", "bare"},
           Begin(p, Job(a, op, c)), KeyAt(a, c, via)
    PROVE  KeyInv'
<1> DEFINE j == Job(a, op, c)
<1>1. j.at = a /\ j.key = c /\ IsJob(j)
  BY JobIs
<1>2. JobKeys(job, via) /\ job' = [job EXCEPT ![p] = j] /\ UNCHANGED <<dm, kind, via, ring, inring>>
  BY DEF KeyInv, Begin
<1> HIDE DEF j
<1>3. JobKeys(job', via)
  BY <1>1, <1>2 DEF JobKeys
<1>4. QED
  BY <1>2, <1>3 DEF KeyInv

(* A running device has a key of the volume; where it came from the        *)
(* keyring, keys go there.                                                 *)
LEMMA KeyOfRunning ==
    ASSUME KeyInv, NEW x \in DOMAIN dm, dm[x].live.what = "crypt", ~dm[x].susp
    PROVE  Fine(dm[x].live.key, via) /\ (dm[x].live.desc => via)
  BY DEF KeyInv, DmKeys, Good, HasFine

(* Every call begins with a key that it may have.                          *)
LEMMA KeyCalls ==
    ASSUME KeyInv, NEW p \in Proc, Call(p)
    PROVE  KeyInv'
<1>0. \A c : Fine(c, via) => c \in {"vk", "twin"}
  BY DEF Fine
<1>1. CASE crypt_activate(p)
  <2>1. PICK ref \in BOOLEAN, c \in KeysOf("refresh") :
            Begin(p, Job("open", IF ref THEN "refresh" ELSE "activate", c))
    BY <1>1 DEF crypt_activate
  <2>2. c \in {"vk", "twin"} /\ KeyAt("open", c, via)
    BY <2>1 DEF KeysOf, KeyAt, Fine
  <2>3. QED
    BY <2>1, <2>2, KeyBegins
<1>2. CASE crypt_resize(p)
  <2> DEFINE c == IF inring[p] THEN ring[p] ELSE dm["n"].live.key
  <2>1. "n" \in DOMAIN dm /\ dm["n"].live.what = "crypt" /\ ~dm["n"].susp /\ Begin(p, Job("query", "resize", c))
    BY <1>2 DEF crypt_resize, MayReadKey, IsCrypt, Suspended, Exists
  <2>2. Fine(c, via)
    <3>1. inring[p] => Fine(ring[p], via)
      BY DEF KeyInv, RingKeys
    <3>2. Fine(dm["n"].live.key, via)
      BY <2>1, KeyOfRunning
    <3>3. QED
      BY <3>1, <3>2
  <2> HIDE DEF c
  <2>3. c \in {"vk", "twin"} /\ KeyAt("query", c, via)
    BY <1>0, <2>2 DEF KeyAt
  <2>4. QED
    BY <2>1, <2>3, KeyBegins
<1>3. CASE crypt_suspend(p)
  <2>1. Begin(p, Job("suspend", "suspend", KeySeen("n"))) /\ KeySeen("n") \in {"described", "bare"}
    BY <1>3 DEF crypt_suspend, KeySeen
  <2>2. KeyAt("suspend", KeySeen("n"), via)
    BY DEF KeyAt
  <2>3. QED
    BY <2>1, <2>2, KeyBegins
<1>4. CASE crypt_resume(p)
  <2>1. PICK c \in KeysOf("resume") : Begin(p, Job("set key", "resume", c))
    BY <1>4 DEF crypt_resume
  <2>2. c \in {"vk", "twin"} /\ KeyAt("set key", c, via)
    BY <2>1 DEF KeysOf, KeyAt, Fine
  <2>3. QED
    BY <2>1, <2>2, KeyBegins
<1>5. CASE crypt_deactivate_by_name(p)
  <2>1. Begin(p, Job("remove n", "close", KeySeen("n"))) /\ KeySeen("n") \in {"described", "bare"}
    BY <1>5 DEF crypt_deactivate_by_name, KeySeen
  <2>2. KeyAt("remove n", KeySeen("n"), via)
    BY DEF KeyAt
  <2>3. QED
    BY <2>1, <2>2, KeyBegins
<1>6. QED
  BY <1>1, <1>2, <1>3, <1>4, <1>5 DEF Call

(* What the invariant says of a call at a place, and where it may go with  *)
(* any key.                                                                *)
LEMMA KeyHere ==
    ASSUME KeyInv, NEW p \in Proc, job[p].at # "idle"
    PROVE  /\ KeyAt(job[p].at, job[p].key, via) /\ DmKeys(dm, via) /\ RingKeys(ring, inring, via)
           /\ \A a \in {"create 1", "create 2", "create 3", "rollback", "failed", "done", "swap", "suspend n",
                        "suspend i", "resume i", "resume n", "clear", "fatal", "wipe", "unsuspend", "resume",
                        "remove 2", "remove 3", "removed"} : KeyAt(a, job[p].key, via)
<1>1. job[p] # Idle
  BY DEF Idle
<1>2. QED
  BY <1>1 DEF KeyInv, JobKeys, KeyAt

(* Steps that change no device.                                            *)
LEMMA KeyQuietSteps ==
    ASSUME KeyInv, NEW p \in Proc,
           \/ OpenKey(p) \/ check_devices(p) \/ QueryRefresh(p) \/ Failed(p) \/ Succeeded(p) \/ Deactivated(p)
    PROVE  KeyInv'
<1>0. via \in BOOLEAN /\ DmKeys(dm, via)
  BY DEF KeyInv
<1>1. CASE OpenKey(p)
  <2>1. job[p].at = "open" /\ Go(p, "check") /\ UNCHANGED <<dm, kind, via>>
        /\ IF via THEN LoadKeyring(p) ELSE KeepKeyring
    BY <1>1 DEF OpenKey, At, Rest
  <2>2. KeyAt("open", job[p].key, via)
    BY <2>1, KeyHere
  <2>3. KeyAt("check", job[p].key, via) /\ (via => Fine(job[p].key, via))
    BY <2>2 DEF KeyAt, Fine
  <2>4. RingKeys(ring', inring', via)
    BY <2>1, <2>3, RingFine
  <2>5. QED
    BY <1>0, <2>1, <2>3, <2>4, KeyGoes
<1>2. CASE check_devices(p)
  <2>1. /\ job[p].at = "check" /\ UNCHANGED <<dm, kind, via>> /\ KeepKeyring
        /\ Go(p, "query") \/ Go(p, "create 1") \/ Go(p, "failed")
    BY <1>2 DEF check_devices, At, Rest
  <2>2. /\ KeyAt("check", job[p].key, via) /\ KeyAt("create 1", job[p].key, via)
        /\ KeyAt("failed", job[p].key, via)
    BY <2>1, KeyHere
  <2>3. KeyAt("query", job[p].key, via)
    BY <2>2 DEF KeyAt
  <2>4. RingKeys(ring', inring', via)
    BY <2>1, RingFine
  <2>5. QED
    BY <1>0, <2>1, <2>2, <2>3, <2>4, KeyGoes
<1>3. CASE QueryRefresh(p)
  <2> DEFINE passes == MayReadKey("n") /\ crypt_compare_dm_devices(p)
  <2>1. /\ job[p].at = "query" /\ UNCHANGED <<dm, kind, via>> /\ KeepKeyring
        /\ \/ Go(p, "failed")
           \/ passes /\ (Go(p, "load i") \/ Go(p, "load"))
    BY <1>3 DEF QueryRefresh, At, Rest
  <2>2. KeyAt("query", job[p].key, via) /\ KeyAt("failed", job[p].key, via)
    BY <2>1, KeyHere
  <2>3. RingKeys(ring', inring', via)
    BY <2>1, RingFine
  <2>4. ASSUME passes PROVE KeyAt("load", job[p].key, via) /\ KeyAt("load i", job[p].key, via)
    <3>1. "n" \in DOMAIN dm /\ dm["n"].live.what = "crypt" /\ ~dm["n"].susp
      BY <2>4 DEF MayReadKey, IsCrypt, Suspended, Exists
    <3>2. Fine(dm["n"].live.key, via) /\ (dm["n"].live.desc => via)
      BY <3>1, KeyOfRunning
    <3>3. dm["n"].live.desc \/ dm["n"].live.key = job[p].key
      BY <2>4 DEF crypt_compare_dm_devices
    <3>4. Fine(job[p].key, via)
      BY <2>2, <3>2, <3>3 DEF KeyAt, Fine
    <3>5. QED
      BY <3>4 DEF KeyAt
  <2>5. QED
    BY <1>0, <2>1, <2>2, <2>3, <2>4, KeyGoes
<1>4. CASE Failed(p) \/ Succeeded(p) \/ Deactivated(p)
  <2>1. /\ UNCHANGED <<dm, kind, via>> /\ (KeepKeyring \/ DropKeyring(p))
        /\ \E r : End(p, r)
    BY <1>4 DEF Failed, Succeeded, Deactivated, Rest
  <2>2. RingKeys(ring', inring', via)
    BY <2>1, RingFine
  <2>3. QED
    BY <1>0, <2>1, <2>2, KeyEnds
<1>5. QED
  BY <1>1, <1>2, <1>3, <1>4

(* The stack is made and removed.                                          *)
LEMMA KeyStackSteps ==
    ASSUME KeyInv, NEW p \in Proc,
           CreateDevice(p) \/ Rollback(p) \/ RemoveBelow(p)
    PROVE  KeyInv'
<1>0. via \in BOOLEAN /\ DmKeys(dm, via) /\ kind \in {"crypt", "integrity", "tcrypt"}
  BY DEF KeyInv
<1>1. ASSUME NEW a \in {"create 1", "create 2", "create 3", "rollback", "failed", "done",
                        "remove 2", "remove 3", "removed"},
             Go(p, a), job[p].at # "idle", DmKeys(dm', via), UNCHANGED <<kind, via>>, KeepKeyring
      PROVE  KeyInv'
  <2>1. KeyAt(a, job[p].key, via) /\ RingKeys(ring', inring', via)
    BY <1>1, KeyHere, RingFine
  <2>2. QED
    BY <1>1, <2>1, KeyGoes
<1>2. CASE CreateDevice(p)
  <2>1. PICK i \in DOMAIN Stack : CreateAs(p, i, Stack[i])
    BY <1>2 DEF CreateDevice
  <2> DEFINE x == Stack[i]
             at == <<"create 1", "create 2", "create 3">>[i]
             next == IF i = Len(Stack) THEN "done" ELSE <<"create 2", "create 3">>[i]
             fail == IF kind = "integrity" /\ i = 2 THEN "rollback" ELSE "failed"
  <2>2. /\ job[p].at = at /\ UNCHANGED <<kind, via>> /\ KeepKeyring
        /\ \/ dm' = Created(dm, x, NewTable(p, x)) /\ Go(p, next)
           \/ dm' = dm /\ Go(p, fail)
    BY <2>1 DEF CreateAs, DmCall, At, Rest
  <2>3. /\ x \in Names(kind) /\ at \in {"create 1", "create 2", "create 3"}
        /\ next \in {"done", "create 2", "create 3"}
    <3>1. CASE kind = "crypt"
      <4>1. Stack = <<"n">> /\ i = 1
        BY <3>1, StackIs
      <4>2. QED
        BY <3>1, <4>1 DEF Names
    <3>2. CASE kind = "integrity"
      <4>1. Stack = <<"n_dif", "n">> /\ i \in {1, 2} /\ Len(Stack) = 2
        BY <3>2, StackIs
      <4>2. CASE i = 1
        BY <3>2, <4>1, <4>2 DEF Names
      <4>3. CASE i = 2
        BY <3>2, <4>1, <4>3 DEF Names
      <4>4. QED
        BY <4>1, <4>2, <4>3
    <3>3. CASE kind = "tcrypt"
      <4>1. Stack = <<"n_2", "n_1", "n">> /\ i \in {1, 2, 3} /\ Len(Stack) = 3
        BY <3>3, StackIs
      <4>2. CASE i = 1
        BY <3>3, <4>1, <4>2 DEF Names
      <4>3. CASE i = 2
        BY <3>3, <4>1, <4>3 DEF Names
      <4>4. CASE i = 3
        BY <3>3, <4>1, <4>4 DEF Names
      <4>5. QED
        BY <4>1, <4>2, <4>3, <4>4
    <3>4. QED
      BY <1>0, <3>1, <3>2, <3>3
  <2>4. HasFine(NewTable(p, x), via) /\ NewTable(p, x) \in Tables
    <3>1. CASE x = "n_dif"
      BY <3>1, PlainTables DEF NewTable
    <3>2. CASE x # "n_dif"
      <4>1. NewTable(p, x) = CryptTable(x, "vk", via, "old") /\ Fine("vk", via)
        BY <3>2 DEF NewTable, Fine
      <4>2. HasFine(CryptTable(x, "vk", via, "old"), via) /\ CryptTable(x, "vk", via, "old") \in Tables
        BY <2>3, <3>2, <4>1, NewCrypt
      <4>3. QED
        BY <4>1, <4>2
    <3>3. QED
      BY <3>1, <3>2
  <2>5. fail \in {"rollback", "failed"} /\ job[p].at # "idle"
    BY <2>2, <2>3
  <2> HIDE DEF x, next, fail, at
  <2>6. DmKeys(dm', via)
    BY <1>0, <2>2, <2>4, KeysCreated
  <2>7. QED
    BY <1>1, <2>2, <2>3, <2>5, <2>6
<1>3. CASE Rollback(p)
  <2>1. /\ job[p].at = "rollback" /\ UNCHANGED <<kind, via>> /\ KeepKeyring /\ Go(p, "failed")
        /\ dm' = Removed(dm, "n_dif") \/ dm' = dm
    BY <1>3 DEF Rollback, DmCall, At, Rest
  <2>2. DmKeys(dm', via)
    BY <1>0, <2>1, KeysRemoved
  <2>3. QED
    BY <1>1, <2>1, <2>2
<1>4. CASE RemoveBelow(p)
  <2>1. PICK i \in DOMAIN Stack \ {Len(Stack)} :
          /\ job[p].at = (IF i = Len(Stack) - 1 THEN "remove 2" ELSE "remove 3")
          /\ UNCHANGED <<kind, via>> /\ KeepKeyring
          /\ Go(p, IF i = 1 THEN "removed" ELSE "remove 3") \/ Go(p, "removed")
          /\ dm' = Removed(dm, Stack[i]) \/ dm' = dm
    BY <1>4 DEF RemoveBelow, DmCall, At, Rest
  <2>2. DmKeys(dm', via)
    BY <1>0, <2>1, KeysRemoved
  <2>3. job[p].at # "idle" /\ (Go(p, "removed") \/ Go(p, "remove 3"))
    BY <2>1
  <2>4. QED
    BY <1>1, <2>1, <2>2, <2>3
<1>5. QED
  BY <1>2, <1>3, <1>4

(* The tables are loaded and swapped.                                      *)
LEMMA KeyReloadSteps ==
    ASSUME KeyInv, NEW p \in Proc,
           \/ LoadTable(p) \/ SwapTable(p) \/ LoadIntegrity(p) \/ LoadCrypt(p) \/ SuspendCrypt(p)
           \/ SuspendIntegrity(p) \/ ResumeIntegrity(p) \/ ResumeIntegrityStuck(p) \/ ResumeCrypt(p)
           \/ ClearTables(p) \/ BurnTables(p)
    PROVE  KeyInv'
<1>0. via \in BOOLEAN /\ DmKeys(dm, via) /\ kind \in {"crypt", "integrity", "tcrypt"} /\ "n" \in Names(kind)
  BY DEF KeyInv, Names
<1>1. ASSUME NEW a \in {"swap", "failed", "done", "suspend n", "suspend i", "resume i", "resume n", "clear", "fatal"},
             Go(p, a), job[p].at # "idle", DmKeys(dm', via), UNCHANGED <<kind, via>>, KeepKeyring
      PROVE  KeyInv'
  <2>1. KeyAt(a, job[p].key, via) /\ RingKeys(ring', inring', via)
    BY <1>1, KeyHere, RingFine
  <2>2. QED
    BY <1>1, <2>1, KeyGoes
<1>2. ASSUME NEW x \in DOMAIN dm, HasKey(x) PROVE DmKeys(Resumed(dm, x), via)
  <2>1. dm[x].load # NoTable \/ ~HasWiped(dm[x].live)
    BY <1>2 DEF HasKey, HasWiped
  <2>2. QED
    BY <1>0, <2>1, KeysResumed
<1>3. ASSUME LoadTable(p) \/ LoadCrypt(p) PROVE KeyInv'
  <2> DEFINE t == CryptTable("n", job[p].key, via, "new")
  <2>1. /\ job[p].at \in {"load", "load n"} /\ UNCHANGED <<kind, via>> /\ KeepKeyring
        /\ \/ "n" \in DOMAIN dm /\ dm' = Loaded(dm, "n", t) /\ (Go(p, "swap") \/ Go(p, "suspend n"))
           \/ dm' = dm /\ (Go(p, "failed") \/ Go(p, "clear"))
    BY <1>3 DEF LoadTable, LoadCrypt, DmCall, At, Rest, Exists
  <2>2. Fine(job[p].key, via)
    BY <2>1, KeyHere DEF KeyAt
  <2>3. HasFine(t, via) /\ t \in Tables
    BY <1>0, <2>2, NewCrypt
  <2> HIDE DEF t
  <2>4. DmKeys(dm', via)
    BY <1>0, <2>1, <2>3, KeysLoaded
  <2>5. job[p].at # "idle"
    BY <2>1
  <2>6. QED
    BY <1>1, <2>1, <2>4, <2>5
<1>4. ASSUME SwapTable(p) \/ ResumeCrypt(p) PROVE KeyInv'
  <2>1. /\ job[p].at \in {"swap", "resume n"} /\ UNCHANGED <<kind, via>> /\ KeepKeyring
        /\ \/ "n" \in DOMAIN dm /\ HasKey("n") /\ dm' = Resumed(dm, "n") /\ Go(p, "done")
           \/ dm' = dm /\ (Go(p, "failed") \/ Go(p, "fatal"))
    BY <1>4 DEF SwapTable, ResumeCrypt, DmCall, At, Rest, Exists
  <2>2. DmKeys(dm', via) /\ job[p].at # "idle"
    BY <1>0, <1>2, <2>1
  <2>3. QED
    BY <1>1, <2>1, <2>2
<1>5. ASSUME LoadIntegrity(p) PROVE KeyInv'
  <2> DEFINE t == IntegrityTable("new")
  <2>1. /\ job[p].at = "load i" /\ UNCHANGED <<kind, via>> /\ KeepKeyring
        /\ \/ "n_dif" \in DOMAIN dm /\ dm' = Loaded(dm, "n_dif", t) /\ Go(p, "load n")
           \/ dm' = dm /\ Go(p, "failed")
    BY <1>5 DEF LoadIntegrity, DmCall, At, Rest, Exists
  <2>2. KeyAt("load i", job[p].key, via) /\ KeyAt("failed", job[p].key, via)
    BY <2>1, KeyHere
  <2>3. KeyAt("load n", job[p].key, via)
    BY <2>2 DEF KeyAt
  <2>4. HasFine(t, via) /\ t \in Tables
    BY PlainTables
  <2> HIDE DEF t
  <2>5. DmKeys(dm', via) /\ job[p].at # "idle"
    BY <1>0, <2>1, <2>4, KeysLoaded
  <2>6. RingKeys(ring', inring', via)
    BY <2>1, RingFine
  <2>7. QED
    BY <2>1, <2>2, <2>3, <2>5, <2>6, KeyGoes
<1>6. ASSUME SuspendCrypt(p) \/ SuspendIntegrity(p) PROVE KeyInv'
  <2>1. /\ job[p].at \in {"suspend n", "suspend i"} /\ UNCHANGED <<kind, via>> /\ KeepKeyring
        /\ \/ "n" \in DOMAIN dm /\ dm' = SuspendedNow(dm, "n") /\ Go(p, "suspend i")
           \/ "n_dif" \in DOMAIN dm /\ dm' = SuspendedNow(dm, "n_dif") /\ Go(p, "resume i")
           \/ dm' = dm /\ Go(p, "clear")
    BY <1>6 DEF SuspendCrypt, SuspendIntegrity, DmCall, At, Rest, Exists
  <2>2. DmKeys(dm', via) /\ job[p].at # "idle"
    BY <1>0, <2>1, KeysSuspended
  <2>3. QED
    BY <1>1, <2>1, <2>2
<1>7. ASSUME ResumeIntegrity(p) \/ ResumeIntegrityStuck(p) PROVE KeyInv'
  <2>1. /\ job[p].at = "resume i" /\ UNCHANGED <<kind, via>> /\ KeepKeyring
        /\ \/ "n_dif" \in DOMAIN dm /\ dm' = Resumed(dm, "n_dif") /\ Go(p, "resume n")
           \/ "n_dif" \in DOMAIN dm /\ dm' = ResumeStuck(dm, "n_dif") /\ Go(p, "clear")
           \/ dm' = dm /\ Go(p, "clear")
    BY <1>7 DEF ResumeIntegrity, ResumeIntegrityStuck, DmCall, At, Rest, Exists
  <2>2. ASSUME "n_dif" \in DOMAIN dm PROVE HasKey("n_dif")
    BY <1>0, <2>2 DEF DmKeys, Good, HasFine, Fine, HasKey
  <2>3. DmKeys(dm', via) /\ job[p].at # "idle"
    BY <1>0, <1>2, <2>1, <2>2, KeysStuck
  <2>4. QED
    BY <1>1, <2>1, <2>3
<1>8. ASSUME ClearTables(p) PROVE KeyInv'
  <2>1. /\ job[p].at = "clear" /\ UNCHANGED <<kind, via>> /\ KeepKeyring /\ Go(p, "failed")
        /\ dm' = [d \in DOMAIN dm |-> [dm[d] EXCEPT !.load = NoTable, !.susp = @ /\ Wiped(d)]]
    BY <1>8 DEF ClearTables, At, Rest
  <2>2. DOMAIN dm' = DOMAIN dm /\ dm' = [d \in DOMAIN dm' |-> dm'[d]]
    BY <2>1
  <2>3. ASSUME NEW x \in DOMAIN dm PROVE Good(dm'[x], x, via)
    <3> DEFINE s == dm[x].susp /\ Wiped(x)
               e == Dev(dm[x].live, NoTable, s)
    <3>1. Good(dm[x], x, via) /\ dm[x] \in Devices
      BY <1>0 DEF DmKeys, Good
    <3>2. dm[x].live \in Tables /\ s \in BOOLEAN
      BY <3>1, DevOf
    <3>3. dm'[x] = [[dm[x] EXCEPT !.load = NoTable] EXCEPT !.susp = s]
      BY <2>1, <3>1 DEF Devices
    <3>4. [dm[x] EXCEPT !.load = NoTable] = Dev(dm[x].live, NoTable, dm[x].susp)
      BY <3>1, DevOf
    <3>5. [Dev(dm[x].live, NoTable, dm[x].susp) EXCEPT !.susp = s] = e
      BY DEF Dev
    <3>6. dm'[x] = e
      BY <3>3, <3>4, <3>5
    <3>7. HasFine(dm[x].live, via) \/ (HasWiped(dm[x].live) /\ ~dm[x].live.desc /\ s /\ x = "n")
      BY <3>1 DEF Good, HasWiped, Wiped, IsCrypt, Exists
    <3> HIDE DEF s
    <3>8. Good(e, x, via)
      BY <3>2, <3>7, GoodDev, PlainTables
    <3>9. QED
      BY <3>6, <3>8
  <2>4. DmKeys(dm', via) /\ job[p].at # "idle"
    BY <2>1, <2>2, <2>3 DEF DmKeys
  <2>5. QED
    BY <1>1, <2>1, <2>4
<1>9. ASSUME BurnTables(p) PROVE KeyInv'
  <2>1. /\ job[p].at = "fatal" /\ UNCHANGED <<kind, via>> /\ KeepKeyring /\ Go(p, "failed")
        /\ dm' = [d \in DOMAIN dm |-> Device(ErrorTable)]
    BY <1>9 DEF BurnTables, At, Rest
  <2>2. Device(ErrorTable) = Dev(ErrorTable, NoTable, FALSE)
    BY DEF Device, Dev
  <2>3. \A x : Good(Device(ErrorTable), x, via)
    BY <2>2, GoodDev, PlainTables
  <2>4. DmKeys(dm', via) /\ job[p].at # "idle"
    BY <2>1, <2>3 DEF DmKeys
  <2>5. QED
    BY <1>1, <2>1, <2>4
<1>10. QED
  BY <1>3, <1>4, <1>5, <1>6, <1>7, <1>8, <1>9

(* Suspend, resume, and the removal of the top.                            *)
LEMMA KeyUserSteps ==
    ASSUME KeyInv, NEW p \in Proc,
           SuspendDevice(p) \/ WipeKey(p) \/ Unsuspend(p) \/ SetKey(p) \/ ResumeDevice(p) \/ RemoveTop(p)
    PROVE  KeyInv'
<1>0. via \in BOOLEAN /\ DmKeys(dm, via)
  BY DEF KeyInv
<1>1. ASSUME NEW a \in {"failed", "done", "wipe", "unsuspend", "resume", "remove 2", "removed"},
             Go(p, a), job[p].at # "idle", DmKeys(dm', via), UNCHANGED <<kind, via>>,
             RingKeys(ring', inring', via)
      PROVE  KeyInv'
  <2>1. KeyAt(a, job[p].key, via)
    BY <1>1, KeyHere
  <2>2. QED
    BY <1>1, <2>1, KeyGoes
<1>2. ASSUME MayChangeKey("n"), NEW c, NEW b \in BOOLEAN, (Fine(c, via) /\ (b => via)) \/ (c = "wiped" /\ ~b)
      PROVE  DmKeys(Keyed(dm, c, b), via)
  <2>1. "n" \in DOMAIN dm /\ dm["n"].live.what = "crypt" /\ dm["n"].susp
    BY <1>2 DEF MayChangeKey, IsCrypt, Suspended, Exists
  <2>2. QED
    BY <1>0, <1>2, <2>1, KeysKeyed
<1>3. ASSUME SuspendDevice(p) PROVE KeyInv'
  <2>1. /\ job[p].at = "suspend" /\ UNCHANGED <<kind, via>> /\ KeepKeyring
        /\ \/ "n" \in DOMAIN dm /\ dm' = SuspendedNow(dm, "n") /\ Go(p, "wipe")
           \/ dm' = dm /\ Go(p, "failed")
    BY <1>3 DEF SuspendDevice, DmCall, At, Rest, Exists
  <2>2. DmKeys(dm', via) /\ job[p].at # "idle" /\ RingKeys(ring', inring', via)
    BY <1>0, <2>1, KeysSuspended, RingFine
  <2>3. QED
    BY <1>1, <2>1, <2>2
<1>4. ASSUME WipeKey(p) PROVE KeyInv'
  <2>1. /\ job[p].at = "wipe" /\ UNCHANGED <<kind, via>> /\ (KeepKeyring \/ DropKeyring(p))
        /\ \/ MayChangeKey("n") /\ dm' = KeyWiped("n") /\ End(p, "suspended")
           \/ dm' = dm /\ Go(p, "unsuspend")
    BY <1>4 DEF WipeKey, At, Rest
  <2>2. KeyWiped("n") = Keyed(dm, "wiped", FALSE)
    BY DEF KeyWiped, Keyed
  <2>3. MayChangeKey("n") => DmKeys(Keyed(dm, "wiped", FALSE), via)
    BY <1>2
  <2>4. DmKeys(dm', via) /\ job[p].at # "idle" /\ RingKeys(ring', inring', via)
    BY <1>0, <2>1, <2>2, <2>3, RingFine
  <2>5. QED
    BY <1>1, <2>1, <2>4, KeyEnds
<1>5. ASSUME Unsuspend(p) \/ ResumeDevice(p) PROVE KeyInv'
  <2>1. /\ job[p].at \in {"unsuspend", "resume"} /\ UNCHANGED <<kind, via>> /\ KeepKeyring
        /\ \/ "n" \in DOMAIN dm /\ HasKey("n") /\ dm' = Resumed(dm, "n") /\ (Go(p, "failed") \/ Go(p, "done"))
           \/ dm' = dm /\ Go(p, "failed")
    BY <1>5 DEF Unsuspend, ResumeDevice, DmCall, At, Rest, Exists
  <2>2. ASSUME "n" \in DOMAIN dm, HasKey("n") PROVE DmKeys(Resumed(dm, "n"), via)
    <3>1. dm["n"].load # NoTable \/ ~HasWiped(dm["n"].live)
      BY <2>2 DEF HasKey, HasWiped
    <3>2. QED
      BY <1>0, <2>2, <3>1, KeysResumed
  <2>3. DmKeys(dm', via) /\ job[p].at # "idle" /\ RingKeys(ring', inring', via)
    BY <1>0, <2>1, <2>2, RingFine
  <2>4. QED
    BY <1>1, <2>1, <2>3
<1>6. ASSUME SetKey(p) PROVE KeyInv'
  <2> DEFINE c == job[p].key
  <2>1. /\ job[p].at = "set key" /\ UNCHANGED <<kind, via>>
        /\ IF via THEN LoadKeyring(p) ELSE KeepKeyring
        /\ \/ MayChangeKey("n") /\ dm' = KeySet("n", c, via) /\ Go(p, "resume")
           \/ dm' = dm /\ Go(p, "failed")
    BY <1>6 DEF SetKey, At, Rest
  <2>2. Fine(c, via)
    BY <2>1, KeyHere DEF KeyAt
  <2>3. RingKeys(ring', inring', via) /\ job[p].at # "idle"
    BY <2>1, <2>2, RingFine
  <2> HIDE DEF c
  <2>4. KeySet("n", c, via) = Keyed(dm, c, via)
    BY DEF KeySet, Keyed
  <2>5. MayChangeKey("n") => DmKeys(Keyed(dm, c, via), via)
    BY <1>0, <1>2, <2>2
  <2>6. DmKeys(dm', via)
    BY <1>0, <2>1, <2>4, <2>5
  <2>7. QED
    BY <1>1, <2>1, <2>3, <2>6
<1>7. ASSUME RemoveTop(p) PROVE KeyInv'
  <2>1. /\ job[p].at = "remove n" /\ UNCHANGED <<kind, via>> /\ (KeepKeyring \/ DropKeyring(p))
        /\ \/ dm' = Removed(dm, "n") /\ (Go(p, "removed") \/ Go(p, "remove 2"))
           \/ dm' = dm /\ End(p, "refused")
    BY <1>7 DEF RemoveTop, At, Rest
  <2>2. DmKeys(dm', via) /\ job[p].at # "idle" /\ RingKeys(ring', inring', via)
    BY <1>0, <2>1, KeysRemoved, RingFine
  <2>3. QED
    BY <1>1, <2>1, <2>2, KeyEnds
<1>8. QED
  BY <1>3, <1>4, <1>5, <1>6, <1>7

(* Every step keeps the keys, careless users or not.                       *)
LEMMA KeyNext ==
    ASSUME KeyInv, [Next]_vars
    PROVE  KeyInv'
<1>1. CASE Mount \/ Umount \/ UNCHANGED vars
  <2>1. UNCHANGED <<dm, kind, via, job, ring, inring>>
    BY <1>1 DEF Mount, Umount, vars
  <2>2. QED
    BY <2>1 DEF KeyInv
<1>2. CASE \E p \in Proc : Call(p) \/ Step(p) \/ Die(p)
  <2>1. PICK p \in Proc : Call(p) \/ Step(p) \/ Die(p)
    BY <1>2
  <2>2. CASE Call(p)
    BY <2>2, KeyCalls
  <2>3. CASE Step(p)
    BY <2>3, KeyQuietSteps, KeyStackSteps, KeyReloadSteps, KeyUserSteps DEF Step
  <2>4. CASE Die(p)
    <3>1. /\ UNCHANGED <<dm, kind, via>> /\ End(p, "died")
          /\ ring' = [ring EXCEPT ![p] = "none"] /\ inring' = [inring EXCEPT ![p] = FALSE]
      BY <2>4 DEF Die
    <3>2. DmKeys(dm', via) /\ RingKeys(ring', inring', via)
      BY <3>1 DEF KeyInv, RingKeys
    <3>3. QED
      BY <3>1, <3>2, KeyEnds
  <2>5. QED
    BY <2>1, <2>2, <2>3, <2>4
<1>3. QED
  BY <1>1, <1>2 DEF Next

(* Nothing has a key at first.                                             *)
LEMMA KeyInit == Init => KeyInv
<1> SUFFICES ASSUME Init PROVE KeyInv
  OBVIOUS
<1>1. kind \in {"crypt", "integrity", "tcrypt"} /\ via \in BOOLEAN
  BY ActivationConstants DEF Init
<1>2. DOMAIN dm = {} /\ dm = [x \in DOMAIN dm |-> dm[x]]
  BY DEF Init
<1>3. job = [p \in Proc |-> job[p]] /\ \A p \in Proc : job[p] = Idle
  BY DEF Init
<1>4. RingKeys(ring, inring, via)
  BY DEF Init, RingKeys
<1>5. QED
  BY <1>1, <1>2, <1>3, <1>4 DEF KeyInv, DmKeys, JobKeys

(* Who is careless stays so.                                               *)
LEMMA MannersStay ==
    ASSUME [Next]_vars
    PROVE  careless' = careless
<1>1. CASE Mount \/ Umount \/ UNCHANGED vars
  BY <1>1 DEF Mount, Umount, vars
<1>2. ASSUME NEW p \in Proc, Call(p) PROVE careless' = careless
  BY <1>2 DEF Call, crypt_activate, crypt_resize, crypt_suspend, crypt_resume, crypt_deactivate_by_name, Begin
<1>3. ASSUME NEW p \in Proc, Step(p) PROVE careless' = careless
  <2>1. CASE OpenKey(p) \/ check_devices(p) \/ Failed(p) \/ Succeeded(p) \/ QueryRefresh(p) \/ Deactivated(p)
    BY <2>1 DEF OpenKey, check_devices, Failed, Succeeded, QueryRefresh, Deactivated, DmCall, Rest
  <2>2. CASE CreateDevice(p) \/ Rollback(p) \/ RemoveTop(p) \/ RemoveBelow(p)
    BY <2>2 DEF CreateDevice, CreateAs, Rollback, RemoveTop, RemoveBelow, DmCall, Rest
  <2>3. CASE LoadTable(p) \/ SwapTable(p) \/ LoadIntegrity(p) \/ LoadCrypt(p) \/ SuspendCrypt(p) \/ SuspendIntegrity(p)
    BY <2>3 DEF LoadTable, SwapTable, LoadIntegrity, LoadCrypt, SuspendCrypt, SuspendIntegrity, DmCall, Rest
  <2>4. CASE ResumeIntegrity(p) \/ ResumeIntegrityStuck(p) \/ ResumeCrypt(p) \/ ClearTables(p) \/ BurnTables(p)
    BY <2>4 DEF ResumeIntegrity, ResumeIntegrityStuck, ResumeCrypt, ClearTables, BurnTables, DmCall, Rest
  <2>5. CASE SuspendDevice(p) \/ WipeKey(p) \/ Unsuspend(p) \/ SetKey(p) \/ ResumeDevice(p)
    BY <2>5 DEF SuspendDevice, WipeKey, Unsuspend, SetKey, ResumeDevice, DmCall, Rest
  <2>6. QED
    BY <1>3, <2>1, <2>2, <2>3, <2>4, <2>5 DEF Step
<1>4. ASSUME NEW p \in Proc, Die(p) PROVE careless' = careless
  BY <1>4 DEF Die
<1>5. QED
  BY <1>1, <1>2, <1>3, <1>4 DEF Next

-----------------------------------------------------------------------------
(* Theorems                                                                *)

(* What is kept where users are not careless.                              *)
CarefulInv == ~careless => ActivationInv

(* ActivationInv is an invariant of processes whose users do not reload a  *)
(* volume while others work on it.                                         *)
THEOREM ActivationInvariant == ActivationSpec => []CarefulInv
<1>1. Init => CarefulInv
  BY InitHolds DEF CarefulInv
<1>2. CarefulInv /\ [Next]_vars => CarefulInv'
  BY NextHolds, MannersStay DEF CarefulInv
<1>3. QED
  BY <1>1, <1>2, PTL DEF ActivationSpec

(* A volume that serves I/O does it with its volume key, for any number of *)
(* processes that activate, refresh, resize, suspend and resume it, also   *)
(* all at the same time, whatever device-mapper calls fail and whoever is  *)
(* killed (crypt_compare_dm_devices, dm_resume_and_reinstate_key, "key     *)
(* wipe").  Without twins of its header that is the volume key itself; a   *)
(* twin that is compared by its key is refused.                            *)
THEOREM VolumeKeyInUse == ActivationSpec => []RunsWithVolumeKey
<1>1. KeyInv => RunsWithVolumeKey
  <2> SUFFICES ASSUME KeyInv, NEW x \in DOMAIN dm, IsCrypt(x), ~dm[x].susp
               PROVE  dm[x].live.key = "vk" \/ (dm[x].live.key = "twin" /\ TwinPasses)
    BY DEF RunsWithVolumeKey
  <2>1. Fine(dm[x].live.key, via)
    BY KeyOfRunning DEF IsCrypt
  <2>2. QED
    BY <2>1 DEF Fine, TwinPasses
<1>2. Init => KeyInv
  BY KeyInit
<1>3. KeyInv /\ [Next]_vars => KeyInv'
  BY KeyNext
<1>4. QED
  BY <1>1, <1>2, <1>3, PTL DEF ActivationSpec

(* A suspended volume has no key left in a table, and a call that fails,   *)
(* suspends or closes leaves none in the keyring it can see (crypt_suspend,*)
(* crypt_drop_keyring_key); unless the resume of a reload fails, whose     *)
(* loaded table _reload_device leaves to the device.                       *)
THEOREM KeysAreGone ==
    <<"crypt", "resume">> \notin FaultsAt => (ActivationSpec => []KeysGone)
<1> SUFFICES ASSUME <<"crypt", "resume">> \notin FaultsAt PROVE ActivationSpec => []KeysGone
  OBVIOUS
<1>1. CarefulInv => KeysGone
  BY GoneIs DEF CarefulInv, KeysGone
<1>2. ActivationSpec => []CarefulInv
  BY ActivationInvariant
<1>3. QED
  BY <1>1, <1>2, PTL

(* Activation, reload and deactivation of a stack are all or nothing:      *)
(* no device maps to one that is gone, and when no call is under way the   *)
(* volume has all of its devices, with tables that belong together, or     *)
(* none.  For any number of processes and any calls, and for every failure *)
(* of a device-mapper call but the ones in NotUndone, which the code does  *)
(* not undo (a resume, a removal below, a cipher of a chain).              *)
THEOREM StackStaysSound ==
    FaultsAt \cap NotUndone = {} => (ActivationSpec => []StackSound)
<1> SUFFICES ASSUME FaultsAt \cap NotUndone = {} PROVE ActivationSpec => []StackSound
  OBVIOUS
<1>1. CarefulInv => StackSound
  BY TypeIs, WholeIs DEF CarefulInv, StackSound
<1>2. ActivationSpec => []CarefulInv
  BY ActivationInvariant
<1>3. QED
  BY <1>1, <1>2, PTL
=============================================================================
