------------------------------- MODULE MCShift -------------------------------
(* Devices whose blocks fill the hotzones, or leave a rest in the last but *)
(* one or in the first hotzone, or that have no second segment.            *)
EXTENDS Shift

World(n, d, e, at) == [size |-> n, deaths |-> d, ioerrs |-> e, at |-> at]

MCWorlds ==
    {World(n, 2, 1, {}) : n \in {6, 7, 9, 10}} \cup {World(n, 1, 2, {"finish"}) : n \in {6, 9}}
      \cup {World(6, 1, 3, {}), World(7, 1, 1, {"restore"}), World(6, 1, 2, {"wipe"}), World(7, 1, 2, {"wipe", "finish"})}

RecoveredWorlds == {World(6, 2, 0, {"recovered"})}
=============================================================================
