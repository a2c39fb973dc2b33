---------------------------- MODULE DeviceMapper ----------------------------
(***************************************************************************)
(* What the library asks of the device-mapper of the kernel                *)
(* (lib/libdevmapper.c): operators from one state of the mapped devices to *)
(* the next.  The state is a function from the names in use to devices; a  *)
(* device has a live table, perhaps an inactive one that the next resume   *)
(* makes live, and may be suspended.  A table has the names of the devices *)
(* it maps to in `over'; the rest of it is the business of the caller.     *)
(***************************************************************************)
EXTENDS Naturals, FiniteSets, Functions

NoTable == [over |-> {}, what |-> "none"]

(* dm_error_device loads this one.                                         *)
ErrorTable == [over |-> {}, what |-> "error"]

Device(t) == [live |-> t, load |-> NoTable, susp |-> FALSE]

Exists(dm, n) == n \in DOMAIN dm

(* The kernel keeps what a table maps to open, be it live or not.          *)
Holders(dm, n) ==
    {m \in DOMAIN dm : n \in dm[m].live.over \cup dm[m].load.over}

(* dm_status_suspended                                                     *)
Suspended(dm, n) == Exists(dm, n) /\ dm[n].susp

(* _dm_create_device                                                       *)
Created(dm, n, t) == [m \in DOMAIN dm \cup {n} |-> IF m = n THEN Device(t) ELSE dm[m]]

(* _dm_reload_device                                                       *)
Loaded(dm, n, t) == [dm EXCEPT ![n].load = t]

(* _dm_resume_device                                                       *)
Resumed(dm, n) ==
    [dm EXCEPT ![n] = Device(IF @.load = NoTable THEN @.live ELSE @.load)]

(* A resume that cannot put the loaded table in place.                     *)
ResumeStuck(dm, n) == [dm EXCEPT ![n].susp = TRUE, ![n].load = NoTable]

(* _dm_simple(DM_DEVICE_SUSPEND)                                           *)
SuspendedNow(dm, n) == [dm EXCEPT ![n].susp = TRUE]

(* dm_clear_device                                                         *)
Cleared(dm, n) == [dm EXCEPT ![n].load = NoTable]

(* _error_device: the error table is loaded and made live.                 *)
Errored(dm, n) == Resumed(Loaded(dm, n, ErrorTable), n)

(* _dm_remove                                                              *)
Removed(dm, n) == Restrict(dm, DOMAIN dm \ {n})
=============================================================================
