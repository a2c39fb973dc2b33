---------------------------- MODULE MCReencrypt -----------------------------
(* Small instances of Reencrypt for TLC.                                   *)
EXTENDS Reencrypt

Calm == [limits |-> {2}, directions |-> {"forward", "backward"},
         types |-> {"checksum", "journal"}, volatile |-> {}, faultsat |-> {},
         deaths |-> 0, powers |-> 0, ioerrs |-> 0, hasherrs |-> 0]

(* Deaths and I/O errors, in both directions.                              *)
Errors == [Calm EXCEPT !.types = @ \cup {"none"}, !.deaths = 2, !.ioerrs = 2]

(* Each run with another resilience and hotzone size.                      *)
Deaths == [Calm EXCEPT !.limits = {1, 2}, !.directions = {"forward"},
                       !.types = @ \cup {"none"}, !.deaths = 3]

(* A power failure in the steps.                                           *)
Power == [Calm EXCEPT !.limits = {1, 2}, !.directions = {"forward"},
                      !.volatile = {"data"}, !.powers = 1]

(* Faults hit the finish.                                                  *)
Finish == [Calm EXCEPT !.faultsat = {"finish"}, !.deaths = 2, !.ioerrs = 2]

(* A hash error besides.                                                   *)
Hash == [Calm EXCEPT !.deaths = 2, !.ioerrs = 1, !.hasherrs = 1]

(* Hotzones of every length backward: the last one may be a short one.     *)
Backward == [Calm EXCEPT !.limits = {1, 2}, !.directions = {"backward"},
                         !.deaths = 2]

(* The hash fails in a recovery; a death hits the finish, or a short last  *)
(* hotzone.                                                                *)
HashError == [Calm EXCEPT !.directions = {"forward"}, !.types = {"checksum"},
                          !.deaths = 1, !.hasherrs = 1]
Restart == [Calm EXCEPT !.directions = {"forward"}, !.types = {"checksum"},
                        !.faultsat = {"finish"}, !.deaths = 1]

LastHotzone == [Backward EXCEPT !.faultsat = {"last"}, !.deaths = 1]

MCWorlds == {Errors, Deaths, Backward, Power, Finish, Hash}
MCRestart == {Restart}
MCHashError == {HashError}
MCLastHotzone == {LastHotzone}
=============================================================================
