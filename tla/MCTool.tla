------------------------------- MODULE MCTool -------------------------------
(* Two users with two passphrases on a device with five keyslots: enough   *)
(* for a new keyslot for each of them and the one of the reencryption, and *)
(* full with an unbound keyslot.                                           *)
EXTENDS Tool

CONSTANTS u1, u2

MCSlot == 1..5
MCPassphrase == 1..3

World(type, users, active, unbound, ops, n) ==
    [type |-> type, users |-> users, active |-> active, unbound |-> unbound,
     ops |-> ops, cmds |-> n, deaths |-> 1, at |-> {}]

Removing == {"kill", "remove", "erase"}

MCWorlds ==
    {World("luks2", {u1, u2}, {1, 2}, {}, {"kill", "remove", "add", "change"}, 3),
     World("luks2", {u1, u2}, {1, 2}, {}, {"kill", "remove", "reencrypt"}, 3),
     World("luks2", {u1, u2}, {1}, {3}, Removing \cup {"token", "reencrypt"}, 3),
     World("luks1", {u1}, {1, 2}, {}, Removing \cup {"add", "change", "format"}, 3)}
      \cup {[World("luks2", {u1}, a, b, {"token", "reencrypt", "remove"}, 3) EXCEPT !.deaths = 0] :
              a \in {{1}, {1, 2}}, b \in {{}, {3}}}

At(w, at) == [w EXCEPT !.at = at]
FormatWorlds == {At(World("luks2", {u1, u2}, {1}, {}, {"add", "format"}, 2), {"format"})}
LUKS1Worlds == {At(World("luks1", {u1, u2}, {1, 2}, {}, {"remove"}, 2), {"luks1"})}
KeyFileWorlds == {At(World("luks2", {u1}, {1}, {}, {"kill"}, 1), {"keyfile"})}
RunWorlds == {At(World("luks2", {u1, u2}, {1, 2}, {}, {"remove", "reencrypt"}, 3), {"run"})}
=============================================================================
